---- MODULE Spec2Model ----
(***************************************************************************)
(* Model of the Composer Diff browser extension.                           *)
(*                                                                         *)
(* The repository holds two implementations of the same pipeline:          *)
(*   - the content script (extension/content.js): getDiff, renderHtml,     *)
(*     insertDiffIntoPage, generateDiff;                                   *)
(*   - the modules (extension/modules/*.js, ui.js, main.js):               *)
(*     parseComposerLock, generateDiff, generateHtml, findComposerLock-    *)
(*     Element, insertDiffIntoPage, addScrollEventListener.                *)
(* Both are modelled, each from its own source.                            *)
(*                                                                         *)
(* Strings that the code builds (HTML) are sequences of tokens; a JS       *)
(* object used as a map (diffList, addedPackages, ...) is a sequence of    *)
(* records with pairwise different names, in property insertion order.     *)
(***************************************************************************)
EXTENDS Integers, Sequences, FiniteSets, TLC

VARIABLES
  oldContent,    \* raw text of the target branch's composer.lock
  newContent,    \* raw text of the source branch's composer.lock
  modOut,        \* outcome of the modules' generateHtml / generateDiff
  csOut,         \* outcome of the content script's generateComposerDiff
  log,           \* messages handed to logger.error / console.error (a set)
  impl,          \* which implementation runs in the page: "content" or "modules"
  layout,        \* the host page: index into Layouts
  panels,        \* per page element, the panels it holds as first and as last children
  pc,            \* per scheduled initialize: "start", "fetching" or "done"
  composerLockFound,   \* global composerLockFound
  diffGenerated,       \* global diffGenerated
  listenerAdded,       \* window.composerDiffScrollListenerAdded
  listenerHtml,        \* the htmlDiff / htmlContent the registered listener closes over
  scrollTimeout,       \* TRUE while the debounce timer of the listener is pending
  hist,          \* history of the insertDiffIntoPage calls (not program state)
  timers,        \* the debounce timers that are pending in the page
  listeners,     \* the scroll listeners registered on window
  burst,         \* scroll events since the last presence check (not program state)
  gone,          \* what the host did to an inserted panel (not program state)
  env,           \* what the page and the GitLab server answer to initialize
  entry,         \* the entry points that ran and those an error escaped from
  domFaults,     \* the DOM calls that throw in the page under test
  last,          \* what the last direct call of insertDiffIntoPage did (not program state)
  branches,      \* what the raw URLs of the two branches answer: the file and the response
  fetches,       \* per branch, the fetch() of its raw file: "idle", "pending" or "settled"
  fetchCall,     \* position of fetchComposerLockContent / extractComposerLockContent
  order,         \* the branches in the order their fetches settled (not program state)
  port           \* the last message of the popup and what the page answered to it

diffVars == <<oldContent, newContent, modOut, csOut, log>>

pageVars == <<impl, layout, panels, pc, composerLockFound, diffGenerated,
              listenerAdded, listenerHtml, scrollTimeout, hist>>

watchVars == <<timers, listeners, burst, gone>>

entryVars == <<env, entry>>

insVars == <<domFaults, last>>

fetchVars == <<branches, fetches, fetchCall, order>>

extVars == <<fetchVars, port>>

vars == <<oldContent, newContent, modOut, csOut, log, impl, layout, panels,
          pc, composerLockFound, diffGenerated, listenerAdded, listenerHtml,
          scrollTimeout, hist, timers, listeners, burst, gone, env, entry, domFaults, last,
          branches, fetches, fetchCall, order, port>>

(***************************************************************************)
(* Bounds and value sets                                                   *)
(***************************************************************************)
MaxEntries == 4      \* package entries over the four section lists together
MaxBurst == 2        \* scroll events that arrive before a debounce timer fires

Names == {"a/a", "b/b"}
Versions == {"1.0", "2.0"}
Null == "null"       \* the JS value null

Package == [name : Names, version : Versions]

(***************************************************************************)
(* Manifest texts.  A text is malformed (JSON.parse throws) or the JSON    *)
(* text of an object; hasPackages / hasDev tell whether the object has the *)
(* key "packages" / "packages-dev" (the list is <<>> when it has not).     *)
(* Well-formed JSON that is no manifest: the texts of null, of a number,   *)
(* of a string, and of an object whose "packages" or "packages-dev" is a   *)
(* value other than a list (a number, a string, an object).  A section     *)
(* that is null, 0, "" or false reads like a missing one in both files.    *)
(***************************************************************************)
MalformedText ==
  [kind |-> "malformed", hasPackages |-> FALSE, packages |-> <<>>,
   hasDev |-> FALSE, dev |-> <<>>]

ObjectText(hasP, p, hasD, d) ==
  [kind |-> "object", hasPackages |-> hasP, packages |-> p,
   hasDev |-> hasD, dev |-> d]

\* The text '{}' that the fetch fallbacks return.
EmptyObjectText == ObjectText(FALSE, <<>>, FALSE, <<>>)

\* the texts 'null', '5' and '"x"'
NullText ==
  [kind |-> "null", hasPackages |-> FALSE, packages |-> <<>>,
   hasDev |-> FALSE, dev |-> <<>>]

NumberText ==
  [kind |-> "number", hasPackages |-> FALSE, packages |-> <<>>,
   hasDev |-> FALSE, dev |-> <<>>]

StringText ==
  [kind |-> "string", hasPackages |-> FALSE, packages |-> <<>>,
   hasDev |-> FALSE, dev |-> <<>>]

\* '{"packages": 5, "packages-dev": [...]}' and '{"packages": [...], "packages-dev": 5}'
PackagesNotListText(d) ==
  [kind |-> "packagesNotList", hasPackages |-> TRUE, packages |-> <<>>,
   hasDev |-> TRUE, dev |-> d]

DevNotListText(p) ==
  [kind |-> "devNotList", hasPackages |-> TRUE, packages |-> p,
   hasDev |-> TRUE, dev |-> <<>>]

\* JSON.parse
JSONparse(text) ==
  IF text.kind = "malformed"
    THEN [threw |-> TRUE,
          value |-> [kind |-> "object", hasPackages |-> FALSE, packages |-> <<>>,
                     hasDev |-> FALSE, dev |-> <<>>]]
    ELSE [threw |-> FALSE,
          value |-> [kind |-> text.kind,
                     hasPackages |-> text.hasPackages, packages |-> text.packages,
                     hasDev |-> text.hasDev, dev |-> text.dev]]

\* lock.packages / lock['packages-dev'] and the forEach on them throw a
\* TypeError: a property of null is read, a property of a number or string is
\* undefined and cannot be set, a number, string or object has no forEach
SectionsThrow(lock) == lock.kind # "object"

(***************************************************************************)
(* JS object used as a map from package name to Diff                       *)
(***************************************************************************)
HasKey(obj, name) == \E i \in 1..Len(obj) : obj[i].name = name

IndexOfKey(obj, name) == CHOOSE i \in 1..Len(obj) : obj[i].name = name

GetKey(obj, name) == obj[IndexOfKey(obj, name)]

\* obj[rec.name] = rec : an existing key keeps its place, a new key goes last
SetKey(obj, rec) ==
  IF HasKey(obj, rec.name)
    THEN [obj EXCEPT ![IndexOfKey(obj, rec.name)] = rec]
    ELSE Append(obj, rec)

Keys(obj) == {obj[i].name : i \in 1..Len(obj)}

(***************************************************************************)
(* modules/composer-diff.js                                                *)
(***************************************************************************)
ParseErrorMsg == "Error parsing composer.lock content"

\* console.error('Error generating diff:', error) of the content script
GenerateErrorMsg == "Error generating diff:"

\* logger.error('Error generating diff', error) of main.js
mainGenerateErrorMsg == "Error generating diff"

\* console.error of the catch around generateDiff in initialize of content.js
csInitializeErrorMsg == "Error generating diff during initialization:"

\* parseComposerLock: the parsed value, or the empty lock and a logged error
parseComposerLock(content) ==
  LET r == JSONparse(content) IN
  IF r.threw
    THEN [lock |-> [kind |-> "object", hasPackages |-> TRUE, packages |-> <<>>,
                    hasDev |-> TRUE, dev |-> <<>>],
          logged |-> {ParseErrorMsg}]
    ELSE [lock |-> r.value, logged |-> {}]

\* lock.packages || [] : a missing section becomes the empty list
OrEmpty(has, list) == IF has THEN list ELSE <<>>

\* the record an old-side package writes
OldDiff(pkg, section) ==
  [name |-> pkg.name, previousSection |-> section, newSection |-> Null,
   previousVersion |-> pkg.version, newVersion |-> Null]

\* the section of the new package taken to be "require" always
NewDiffBad(pkg, section) ==
  [name |-> pkg.name, previousSection |-> Null, newSection |-> "require",
   previousVersion |-> Null, newVersion |-> pkg.version]

\* the record a new-side package writes when its name is not yet known
NewDiff(pkg, section) ==
  [name |-> pkg.name, previousSection |-> Null, newSection |-> section,
   previousVersion |-> Null, newVersion |-> pkg.version]

\* the bug of keeping the first entry of a name: a later one is skipped
RECURSIVE forEachOldFirstWins(_, _, _)
forEachOldFirstWins(list, section, diffList) ==
  IF list = <<>> THEN diffList
  ELSE forEachOldFirstWins(Tail(list), section,
         IF HasKey(diffList, Head(list).name)
           THEN diffList
           ELSE SetKey(diffList, OldDiff(Head(list), section)))

\* oldLock[section].forEach(oldPackage => diffList[oldPackage.name] = {...})
RECURSIVE forEachOld(_, _, _)
forEachOld(list, section, diffList) ==
  IF list = <<>> THEN diffList
  ELSE forEachOld(Tail(list), section, SetKey(diffList, OldDiff(Head(list), section)))

\* newLock[section].forEach(newPackage => { const diff = ...; if (diff) ... })
RECURSIVE forEachNew(_, _, _)
forEachNew(list, section, diffList) ==
  IF list = <<>> THEN diffList
  ELSE LET pkg == Head(list) IN
       forEachNew(Tail(list), section,
         IF HasKey(diffList, pkg.name)
           THEN SetKey(diffList,
                  [GetKey(diffList, pkg.name) EXCEPT
                     !.newVersion = pkg.version, !.newSection = section])
           ELSE SetKey(diffList, NewDiff(pkg, section)))

\* the last branch taken without comparing the two sides
CategoryAlwaysUpdated(diff) ==
  IF diff.previousSection = Null /\ diff.newSection # Null THEN "added"
  ELSE IF diff.previousSection # Null /\ diff.newSection = Null THEN "removed"
  ELSE "updated"

\* the if / else-if chain that sorts one Diff into a category
Category(diff) ==
  IF diff.previousSection = Null /\ diff.newSection # Null THEN "added"
  ELSE IF diff.previousSection # Null /\ diff.newSection = Null THEN "removed"
  ELSE IF /\ diff.previousSection # Null
          /\ diff.newSection # Null
          /\ (\/ diff.previousVersion # diff.newVersion
              \/ diff.previousSection # diff.newSection) THEN "updated"
  ELSE "none"

\* generateDiff of the module, on the two parsed locks
generateDiffOfLocks(oldLock, newLock) ==
  LET d1 == forEachOld(OrEmpty(oldLock.hasPackages, oldLock.packages), "require", <<>>)
      d2 == forEachOld(OrEmpty(oldLock.hasDev, oldLock.dev), "require-dev", d1)
      d3 == forEachNew(OrEmpty(newLock.hasPackages, newLock.packages), "require", d2)
      diffList == forEachNew(OrEmpty(newLock.hasDev, newLock.dev), "require-dev", d3)
  IN [added   |-> SelectSeq(diffList, LAMBDA d : Category(d) = "added"),
      updated |-> SelectSeq(diffList, LAMBDA d : Category(d) = "updated"),
      removed |-> SelectSeq(diffList, LAMBDA d : Category(d) = "removed")]

EmptyDiff == [added |-> <<>>, updated |-> <<>>, removed |-> <<>>]

\* generateDiff(oldContent, newContent) of the module; it has no try of its
\* own, so the TypeError of a lock that is no manifest object leaves it
generateDiff(old, new) ==
  LET po == parseComposerLock(old)
      pn == parseComposerLock(new)
  IN IF SectionsThrow(po.lock) \/ SectionsThrow(pn.lock)
       THEN [threw |-> TRUE, diff |-> EmptyDiff, logged |-> po.logged \cup pn.logged]
       ELSE [threw |-> FALSE, diff |-> generateDiffOfLocks(po.lock, pn.lock),
             logged |-> po.logged \cup pn.logged]

(***************************************************************************)
(* Rendering of the module: generate*PackagesHtml and generateHtml         *)
(***************************************************************************)
RECURSIVE Flatten(_)
Flatten(seqs) == IF seqs = <<>> THEN <<>> ELSE Head(seqs) \o Flatten(Tail(seqs))

Rows(obj, Row(_)) == Flatten([i \in 1..Len(obj) |-> Row(obj[i])])

NoChangesHtml == <<"<p>No changes found in composer.lock file.</p>">>

Newline == "\n"

generateAddedPackagesHtml(addedPackages) ==
  IF Len(addedPackages) = 0 THEN <<>>
  ELSE <<"<h2>Added packages</h2>", "<table>">>
       \o Rows(addedPackages,
               LAMBDA diff : <<"<tr class=package-added>", diff.name,
                               "<td>", diff.newVersion,
                               "<td>", diff.newSection, "</tr>">>)
       \o <<"</table>">>

\* the bug of rendering every field of an updated record as a change
generateUpdatedPackagesHtmlAlwaysFromTo(updatedPackages) ==
  IF Len(updatedPackages) = 0 THEN <<>>
  ELSE <<"<h2>Updated packages</h2>", "<table>">>
       \o Rows(updatedPackages,
               LAMBDA diff :
                 <<"<tr class=package-updated>", diff.name, "<td>",
                   "version-from", diff.previousVersion, "version-to", diff.newVersion,
                   "<td>",
                   "section-from", diff.previousSection, "section-to", diff.newSection,
                   "</tr>">>)
       \o <<"</table>">>

generateUpdatedPackagesHtml(updatedPackages) ==
  IF Len(updatedPackages) = 0 THEN <<>>
  ELSE <<"<h2>Updated packages</h2>", "<table>">>
       \o Rows(updatedPackages,
               LAMBDA diff :
                 LET versionChanged == diff.previousVersion # diff.newVersion
                     version == IF versionChanged
                                  THEN <<"version-from", diff.previousVersion,
                                         "version-to", diff.newVersion>>
                                  ELSE <<diff.newVersion>>
                     sectionChanged == diff.previousSection # diff.newSection
                     section == IF sectionChanged
                                  THEN <<"section-from", diff.previousSection,
                                         "section-to", diff.newSection>>
                                  ELSE <<diff.newSection>>
                 IN <<"<tr class=package-updated>", diff.name, "<td>">>
                    \o version \o <<"<td>">> \o section \o <<"</tr>">>)
       \o <<"</table>">>

generateRemovedPackagesHtml(removedPackages) ==
  IF Len(removedPackages) = 0 THEN <<>>
  ELSE <<"<h2>Removed packages</h2>", "<table>">>
       \o Rows(removedPackages,
               LAMBDA diff : <<"<tr class=package-removed>", diff.name,
                               "<td>", diff.previousVersion,
                               "<td>", diff.previousSection, "</tr>">>)
       \o <<"</table>">>

\* [a, u, r].join('\n')
JoinNewline(a, u, r) == a \o <<Newline>> \o u \o <<Newline>> \o r

\* generateHtml(oldContent, newContent) of the module
generateHtml(old, new) ==
  LET g == generateDiff(old, new)
      addedHtml == generateAddedPackagesHtml(g.diff.added)
      updatedHtml == generateUpdatedPackagesHtml(g.diff.updated)
      removedHtml == generateRemovedPackagesHtml(g.diff.removed)
  IN [threw |-> g.threw,
      diff |-> g.diff,
      logged |-> g.logged,
      html |-> IF g.threw THEN <<>>
               ELSE IF addedHtml = <<>> /\ updatedHtml = <<>> /\ removedHtml = <<>>
                 THEN NoChangesHtml
                 ELSE JoinNewline(addedHtml, updatedHtml, removedHtml)]

(***************************************************************************)
(* content.js: generateComposerDiff with its inner getDiff and renderHtml  *)
(***************************************************************************)
csOldDiff(pkg, section) ==
  [name |-> pkg.name, previousSection |-> section, newSection |-> Null,
   previousVersion |-> pkg.version, newVersion |-> Null]

csNewDiff(pkg, section) ==
  [name |-> pkg.name, previousSection |-> Null, newSection |-> section,
   previousVersion |-> Null, newVersion |-> pkg.version]

RECURSIVE csForEachOld(_, _, _)
csForEachOld(list, section, diffList) ==
  IF list = <<>> THEN diffList
  ELSE csForEachOld(Tail(list), section,
                    SetKey(diffList, csOldDiff(Head(list), section)))

RECURSIVE csForEachNew(_, _, _)
csForEachNew(list, section, diffList) ==
  IF list = <<>> THEN diffList
  ELSE LET pkg == Head(list) IN
       csForEachNew(Tail(list), section,
         IF HasKey(diffList, pkg.name)
           THEN SetKey(diffList,
                  [GetKey(diffList, pkg.name) EXCEPT
                     !.newVersion = pkg.version, !.newSection = section])
           ELSE SetKey(diffList, csNewDiff(pkg, section)))

\* the if / else-if chain of getDiff: a change of section alone is not tested
csCategory(diff) ==
  IF diff.previousSection = Null /\ diff.newSection # Null THEN "added"
  ELSE IF diff.previousSection # Null /\ diff.newSection = Null THEN "removed"
  ELSE IF /\ diff.previousSection # Null
          /\ diff.newSection # Null
          /\ diff.previousVersion # diff.newVersion THEN "updated"
  ELSE "none"

\* getDiff(oldLock, newLock): lock[section].forEach throws a TypeError when
\* the section is undefined
getDiff(oldLock, newLock) ==
  IF \/ SectionsThrow(oldLock)
     \/ SectionsThrow(newLock)
     \/ ~(oldLock.hasPackages /\ oldLock.hasDev /\ newLock.hasPackages /\ newLock.hasDev)
    THEN [threw |-> TRUE, error |-> "TypeError", diff |-> EmptyDiff]
    ELSE
      LET d1 == csForEachOld(oldLock.packages, "require", <<>>)
          d2 == csForEachOld(oldLock.dev, "require-dev", d1)
          d3 == csForEachNew(newLock.packages, "require", d2)
          diffList == csForEachNew(newLock.dev, "require-dev", d3)
      IN [threw |-> FALSE, error |-> "",
          diff |-> [added   |-> SelectSeq(diffList, LAMBDA d : csCategory(d) = "added"),
                    updated |-> SelectSeq(diffList, LAMBDA d : csCategory(d) = "updated"),
                    removed |-> SelectSeq(diffList, LAMBDA d : csCategory(d) = "removed")]]

\* renderHtml(addedDiffList, updatedDiffList, removedDiffList)
renderHtml(addedDiffList, updatedDiffList, removedDiffList) ==
  LET addedTable ==
        IF Len(addedDiffList) > 0
          THEN <<"<h2>Added packages</h2>", "<table>">>
               \o Rows(addedDiffList,
                       LAMBDA diff : <<"<tr>", diff.name, "<td>", diff.newVersion,
                                       "<td>", diff.newSection, "</tr>">>)
               \o <<"</table>">>
          ELSE <<>>
      updatedTable ==
        IF Len(updatedDiffList) > 0
          THEN <<"<h2>Updated packages</h2>", "<table>">>
               \o Rows(updatedDiffList,
                       LAMBDA diff :
                         LET versionChanged == diff.previousVersion # diff.newVersion
                             version == IF versionChanged
                                          THEN <<"From", diff.previousVersion,
                                                 "to", diff.newVersion>>
                                          ELSE <<diff.newVersion>>
                             sectionChanged == diff.previousSection # diff.newSection
                             section == IF sectionChanged
                                          THEN <<"From", diff.previousSection,
                                                 "to", diff.newSection>>
                                          ELSE <<diff.newSection>>
                         IN <<"<tr>", diff.name, "<td>">>
                            \o version \o <<"<td>">> \o section \o <<"</tr>">>)
               \o <<"</table>">>
          ELSE <<>>
      removedTable ==
        IF Len(removedDiffList) > 0
          THEN <<"<h2>Removed packages</h2>", "<table>">>
               \o Rows(removedDiffList,
                       LAMBDA diff : <<"<tr>", diff.name, "<td>", diff.previousVersion,
                                       "<td>", diff.previousSection, "</tr>">>)
               \o <<"</table>">>
          ELSE <<>>
  IN JoinNewline(addedTable, updatedTable, removedTable)

\* generateComposerDiff(oldContent, newContent): JSON.parse is not guarded, so
\* a malformed text rejects the returned promise with a SyntaxError
generateComposerDiff(old, new) ==
  LET po == JSONparse(old)
      pn == JSONparse(new)
  IN IF po.threw \/ pn.threw
       THEN [threw |-> TRUE, error |-> "SyntaxError", diff |-> EmptyDiff, html |-> <<>>]
       ELSE LET g == getDiff(po.value, pn.value) IN
            IF g.threw
              THEN [threw |-> TRUE, error |-> g.error, diff |-> EmptyDiff, html |-> <<>>]
              ELSE [threw |-> FALSE, error |-> "", diff |-> g.diff,
                    html |-> renderHtml(g.diff.added, g.diff.updated, g.diff.removed)]

(***************************************************************************)
(* The host page.  Elements are numbered in document order over a fixed    *)
(* tree; a layout says which of them the page currently holds and with     *)
(* which classes, ids, attributes and own text.                            *)
(*     1 html                                                              *)
(*     2   body                                                            *)
(*     3     wrapper                                                       *)
(*     4       file A       (the diff of some other file)                  *)
(*     5         its title                                                 *)
(*     6         its content                                               *)
(*     7       file B       (the diff of composer.lock)                    *)
(*     8         its title                                                 *)
(*     9         its content                                               *)
(***************************************************************************)
ParentOf == <<0, 1, 2, 3, 4, 4, 3, 7, 7>>

Nodes == 1..Len(ParentOf)

Html == 1

Body == 2

NoClasses == [n \in Nodes |-> {}]

\* nothing rendered yet: html and body only
LayoutBare ==
  [present |-> {1, 2}, classes |-> NoClasses, ids |-> {},
   text |-> {}, dataPath |-> {}, title |-> {}]

\* the page frame, no diff file rendered yet
LayoutWrapper ==
  [present |-> {1, 2, 3},
   classes |-> [NoClasses EXCEPT ![3] = {"content-wrapper"}],
   ids |-> {}, text |-> {}, dataPath |-> {}, title |-> {}]

\* only the diff of another file is rendered
LayoutOtherFile ==
  [present |-> {1, 2, 3, 4, 5, 6},
   classes |-> [NoClasses EXCEPT ![3] = {"content-wrapper"},
                                 ![4] = {"diff-file", "file-holder"},
                                 ![5] = {"file-title-name"},
                                 ![6] = {"diff-content"}],
   ids |-> {}, text |-> {}, dataPath |-> {}, title |-> {}]

\* the diff of composer.lock is rendered after the diff of another file
LayoutLockFile ==
  [present |-> {1, 2, 3, 4, 5, 6, 7, 8, 9},
   classes |-> [NoClasses EXCEPT ![3] = {"content-wrapper"},
                                 ![4] = {"diff-file", "file-holder"},
                                 ![5] = {"file-title-name"},
                                 ![6] = {"diff-content"},
                                 ![7] = {"diff-file", "file-holder"},
                                 ![8] = {"file-title-name"},
                                 ![9] = {"diff-content"}],
   ids |-> {}, text |-> {8}, dataPath |-> {7}, title |-> {8}]

\* composer.lock is named in plain text only, inside a holder that none of
\* the structural selectors matches
LayoutTextOnly ==
  [present |-> {1, 2, 3, 7, 8, 9},
   classes |-> [NoClasses EXCEPT ![3] = {"diffs"},
                                 ![7] = {"js-file-holder"},
                                 ![9] = {"file-content"}],
   ids |-> {3}, text |-> {8}, dataPath |-> {}, title |-> {}]

\* the title of another file carries the class of the first structural
\* selector; composer.lock is named only by the data-path of its own holder
LayoutLockByAttr ==
  [present |-> {1, 2, 3, 4, 5, 6, 7, 8, 9},
   classes |-> [NoClasses EXCEPT ![3] = {"content-wrapper"},
                                 ![4] = {"diff-file"},
                                 ![5] = {"file-title-name"},
                                 ![6] = {"diff-content"},
                                 ![7] = {"file-holder"},
                                 ![9] = {"file-content"}],
   ids |-> {}, text |-> {}, dataPath |-> {7}, title |-> {}]

\* composer.lock is named in plain text only, in a holder that comes after
\* the diff of another file
LayoutTextAfterOther ==
  [present |-> {1, 2, 3, 4, 5, 6, 7, 8, 9},
   classes |-> [NoClasses EXCEPT ![3] = {"content-wrapper"},
                                 ![4] = {"diff-file"},
                                 ![6] = {"diff-content"},
                                 ![7] = {"js-file-holder"},
                                 ![9] = {"file-content"}],
   ids |-> {}, text |-> {8}, dataPath |-> {}, title |-> {}]

\* a document that has no body element
LayoutNoBody ==
  [present |-> {1}, classes |-> NoClasses, ids |-> {},
   text |-> {}, dataPath |-> {}, title |-> {}]

\* the layouts the host page moves between
Layouts == <<LayoutBare, LayoutWrapper, LayoutOtherFile, LayoutLockFile, LayoutTextOnly,
             LayoutLockByAttr, LayoutTextAfterOther>>

\* and the documents insertDiffIntoPage can be called on
AllLayouts == Layouts \o <<LayoutNoBody>>

(***************************************************************************)
(* Selectors: an optional ancestor class, a class, an id, an attribute     *)
(* whose value must contain "composer.lock".                               *)
(***************************************************************************)
Cls(c) == [anc |-> "", cls |-> c, id |-> FALSE, attr |-> ""]

In(a, c) == [anc |-> a, cls |-> c, id |-> FALSE, attr |-> ""]

Attr(a) == [anc |-> "", cls |-> "", id |-> FALSE, attr |-> a]

\* '#diffs' : the only id the code asks for
IdDiffs == [anc |-> "", cls |-> "", id |-> TRUE, attr |-> ""]

COMPOSER_LOCK_SELECTORS ==
  <<Cls("file-title-name"),
    In("file-header-content", "file-title-name"),
    In("diff-file-header", "file-title-name"),
    In("diff-file", "file-title"),
    In("diff-file", "file-header-content"),
    Cls("js-file-title"),
    In("file-header", "file-title-name"),
    Cls("file-title"),
    Attr("data-path"),
    Attr("title"),
    Cls("diff-file-header"),
    Cls("diff-file")>>

PARENT_SELECTORS ==
  <<Cls("diff-file"), Cls("file"), Cls("diff-file-holder"), Cls("js-file-holder"),
    Cls("file-holder"), Cls("diff-content"), Cls("diff-wrap")>>

CONTENT_SELECTORS ==
  <<Cls("diff-content"), Cls("file-content"), Cls("diff-file-content"),
    Cls("js-file-content"), Cls("file-holder"), Cls("diff-table"),
    Cls("content-wrapper"), Cls("diff-wrap-lines"), Cls("diff-wrap")>>

FALLBACK_SELECTORS ==
  <<Cls("diffs"), Cls("diff-files-holder"), IdDiffs, Cls("content-wrapper")>>

\* the four selectors content.js asks for its "first diff file" fallback
csFirstDiffFileSelectors ==
  <<Cls("diff-file"), Cls("file"), Cls("diff-file-holder"), Cls("js-file-holder")>>

(***************************************************************************)
(* DOM queries.  L is a layout, P the panels, 0 stands for null.           *)
(***************************************************************************)
RECURSIVE IsAncOrSelf(_, _)
IsAncOrSelf(a, n) ==
  \/ a = n
  \/ (ParentOf[n] # 0 /\ IsAncOrSelf(a, ParentOf[n]))

IsDescendant(n, a) == n # a /\ IsAncOrSelf(a, n)

Min(S) == CHOOSE x \in S : \A y \in S : x <= y

Max(S) == CHOOSE x \in S : \A y \in S : x >= y

\* element.matches(selector)
Matches(L, n, sel) ==
  /\ n \in L.present
  /\ sel.cls = "" \/ sel.cls \in L.classes[n]
  /\ ~sel.id \/ n \in L.ids
  /\ \/ sel.attr = ""
     \/ (sel.attr = "data-path" /\ n \in L.dataPath)
     \/ (sel.attr = "title" /\ n \in L.title)
  /\ \/ sel.anc = ""
     \/ \E a \in L.present : IsDescendant(n, a) /\ sel.anc \in L.classes[a]

\* root.querySelectorAll(selector), root = 0 for the document: the matching
\* elements below root; document order is the order of the numbers
querySelectorAll(L, root, sel) ==
  {n \in L.present : Matches(L, n, sel) /\ (root = 0 \/ IsDescendant(n, root))}

\* root.querySelector(selector)
querySelector(L, root, sel) ==
  IF querySelectorAll(L, root, sel) = {} THEN 0
  ELSE Min(querySelectorAll(L, root, sel))

\* element.closest(selector): the nearest of the element and its ancestors
closest(L, n, sel) ==
  LET hits == {a \in L.present : IsAncOrSelf(a, n) /\ Matches(L, a, sel)}
  IN IF hits = {} THEN 0 ELSE Max(hits)

\* a || b || ... over a list of selectors: the first that gives an element
FirstNonNull(sels, F(_)) ==
  LET hits == {i \in 1..Len(sels) : F(sels[i]) # 0}
  IN IF hits = {} THEN 0 ELSE F(sels[Min(hits)])

\* does the rendered document contain the text "composer.lock"
HtmlNamesLock(html) ==
  \E i \in 1..Len(html) : html[i] = NoChangesHtml[1]

NoPanels == [n \in Nodes |-> [first |-> <<>>, last |-> <<>>]]

PanelsAt(P, n) == P[n].first \o P[n].last

\* element.textContent.includes('composer.lock'): own text, the text of the
\* elements below, and the text of the panels inside
TextContentNames(L, P, n) ==
  \E d \in L.present :
    /\ IsAncOrSelf(n, d)
    /\ \/ d \in L.text
       \/ \E i \in 1..Len(PanelsAt(P, d)) : HtmlNamesLock(PanelsAt(P, d)[i])

\* the test both locators apply to a candidate of the structural selectors
NamesComposerLock(L, P, n) ==
  \/ TextContentNames(L, P, n)
  \/ n \in L.dataPath
  \/ n \in L.title

\* the panels below element n, in document order, as <<element, slot, index>>
Children(L, n) == {c \in L.present : ParentOf[c] = n}

RECURSIVE SetToSeq(_)
SetToSeq(S) == IF S = {} THEN <<>> ELSE <<Min(S)>> \o SetToSeq(S \ {Min(S)})

RECURSIVE PanelsBelow(_, _, _)
PanelsBelow(L, P, n) ==
  [i \in 1..Len(P[n].first) |-> <<n, "first", i>>]
  \o Flatten([k \in 1..Cardinality(Children(L, n)) |->
                PanelsBelow(L, P, SetToSeq(Children(L, n))[k])])
  \o [i \in 1..Len(P[n].last) |-> <<n, "last", i>>]

PanelCount(L, P) == Len(PanelsBelow(L, P, Html))

RemoveAt(seq, i) == SubSeq(seq, 1, i - 1) \o SubSeq(seq, i + 1, Len(seq))

\* the bug of looking for the existing panel among the anchor's own
\* children only (':scope > .composer-diff-container')
RemoveExistingDiffOfChildren(L, P, anchor) ==
  IF P[anchor].first # <<>> THEN [P EXCEPT ![anchor].first = Tail(@)]
  ELSE IF P[anchor].last # <<>> THEN [P EXCEPT ![anchor].last = Tail(@)]
  ELSE P

\* the check for an existing panel left out
RemoveNothing(L, P, anchor) == P

\* const existingDiff = anchor.querySelector('.composer-diff-container');
\* if (existingDiff) existingDiff.remove();   -- the first panel below the anchor
RemoveExistingDiff(L, P, anchor) ==
  LET below == PanelsBelow(L, P, anchor) IN
  IF below = <<>> THEN P
  ELSE LET at == below[1] IN
       IF at[2] = "first"
         THEN [P EXCEPT ![at[1]].first = RemoveAt(@, at[3])]
         ELSE [P EXCEPT ![at[1]].last = RemoveAt(@, at[3])]

(***************************************************************************)
(* modules/dom-utils.js                                                    *)
(***************************************************************************)
\* findElement(selectors): the first element of the first selector that matches
findElement(L, sels) ==
  FirstNonNull(sels, LAMBDA sel : querySelector(L, 0, sel))

\* findAllElements(selectors): all elements of the first selector that matches
findAllElements(L, sels) ==
  LET hits == {i \in 1..Len(sels) : querySelectorAll(L, 0, sels[i]) # {}}
  IN IF hits = {} THEN {} ELSE querySelectorAll(L, 0, sels[Min(hits)])

\* findElementContainingText('composer.lock'): the first element of the
\* document whose textContent contains the text
findElementContainingText(L, P) ==
  LET hits == {n \in L.present : TextContentNames(L, P, n)}
  IN IF hits = {} THEN 0 ELSE Min(hits)

\* the bug of a case without its break: 'prepend' falls through to 'append',
\* which moves the container to the end of the parent
safeInsertElementFallsThrough(P, html, parent, thrown) ==
  IF parent = 0
    THEN [panels |-> P, ok |-> FALSE,
          logged |-> {"Cannot insert element: element or parent is null"}]
  ELSE IF "prepend" \in thrown
    THEN [panels |-> P, ok |-> FALSE,
          logged |-> {"Error inserting element using prepend"}]
  ELSE [panels |-> [P EXCEPT ![parent].last = Append(@, html)], ok |-> TRUE,
        logged |-> {}]

\* safeInsertElement(element, parent, 'prepend'): the panels after it, and
\* whether it succeeded; raises is the set of DOM calls that throw
safeInsertElement(P, html, parent, thrown) ==
  IF parent = 0
    THEN [panels |-> P, ok |-> FALSE,
          logged |-> {"Cannot insert element: element or parent is null"}]
  ELSE IF "prepend" \in thrown
    THEN [panels |-> P, ok |-> FALSE,
          logged |-> {"Error inserting element using prepend"}]
  ELSE [panels |-> [P EXCEPT ![parent].first = <<html>> \o @], ok |-> TRUE,
        logged |-> {}]

(***************************************************************************)
(* ui.js (unnamed/part_000)                                                *)
(***************************************************************************)
\* the fallback containers asked before the first diff file
findComposerLockElementContainerFirst(L, P) ==
  LET fileElements == findAllElements(L, COMPOSER_LOCK_SELECTORS)
      withParent == {n \in fileElements :
                       /\ NamesComposerLock(L, P, n)
                       /\ FirstNonNull(PARENT_SELECTORS,
                                       LAMBDA sel : closest(L, n, sel)) # 0}
      elementWithText == findElementContainingText(L, P)
      textParent == IF elementWithText = 0 THEN 0
                    ELSE FirstNonNull(PARENT_SELECTORS,
                                      LAMBDA sel : closest(L, elementWithText, sel))
      firstDiffFile == findElement(L, PARENT_SELECTORS)
      diffsContainer == findElement(L, FALLBACK_SELECTORS)
  IN IF withParent # {}
       THEN FirstNonNull(PARENT_SELECTORS, LAMBDA sel : closest(L, Min(withParent), sel))
     ELSE IF textParent # 0 THEN textParent
     ELSE IF diffsContainer # 0 THEN diffsContainer
     ELSE IF firstDiffFile # 0 THEN firstDiffFile
     ELSE IF Body \in L.present THEN Body ELSE 0

\* findComposerLockElement()
findComposerLockElement(L, P) ==
  LET fileElements == findAllElements(L, COMPOSER_LOCK_SELECTORS)
      withParent == {n \in fileElements :
                       /\ NamesComposerLock(L, P, n)
                       /\ FirstNonNull(PARENT_SELECTORS,
                                       LAMBDA sel : closest(L, n, sel)) # 0}
      elementWithText == findElementContainingText(L, P)
      textParent == IF elementWithText = 0 THEN 0
                    ELSE FirstNonNull(PARENT_SELECTORS,
                                      LAMBDA sel : closest(L, elementWithText, sel))
      firstDiffFile == findElement(L, PARENT_SELECTORS)
      diffsContainer == findElement(L, FALLBACK_SELECTORS)
  IN IF withParent # {}
       THEN FirstNonNull(PARENT_SELECTORS, LAMBDA sel : closest(L, Min(withParent), sel))
     ELSE IF textParent # 0 THEN textParent
     ELSE IF firstDiffFile # 0 THEN firstDiffFile
     ELSE IF diffsContainer # 0 THEN diffsContainer
     ELSE IF Body \in L.present THEN Body ELSE 0

\* findContentElement(composerLockElement)
findContentElement(L, composerLockElement) ==
  IF composerLockElement # Body
       /\ FirstNonNull(CONTENT_SELECTORS,
                       LAMBDA sel : querySelector(L, composerLockElement, sel)) # 0
    THEN FirstNonNull(CONTENT_SELECTORS,
                      LAMBDA sel : querySelector(L, composerLockElement, sel))
    ELSE composerLockElement

\* insertDiffIntoPage(htmlContent) of ui.js
insertDiffIntoPage(L, P, html, thrown) ==
  LET composerLockElement == findComposerLockElement(L, P) IN
  IF composerLockElement = 0
    THEN [panels |-> P, ok |-> FALSE,
          logged |-> {"Could not find any element to insert diff into"}]
  ELSE LET P1 == RemoveExistingDiff(L, P, composerLockElement)
           contentElement == findContentElement(L, composerLockElement)
       IN safeInsertElement(P1, html, contentElement, thrown)

(***************************************************************************)
(* content.js: insertDiffIntoPage                                          *)
(***************************************************************************)
\* element.closest(s1) || element.closest(s2) || ... over the parent selectors
Container(L, n) == FirstNonNull(PARENT_SELECTORS, LAMBDA sel : closest(L, n, sel))

\* strategy A (lines 599-659): the elements of the first structural selector
\* that matches anything; the container of the first of them that names
\* composer.lock and has one
StrategyA(L, P) ==
  LET hits == {i \in 1..Len(COMPOSER_LOCK_SELECTORS) :
                 querySelectorAll(L, 0, COMPOSER_LOCK_SELECTORS[i]) # {}}
      fileElements == IF hits = {} THEN {}
                      ELSE querySelectorAll(L, 0, COMPOSER_LOCK_SELECTORS[Min(hits)])
      named == {n \in fileElements : NamesComposerLock(L, P, n) /\ Container(L, n) # 0}
  IN IF named = {} THEN 0 ELSE Container(L, Min(named))

\* strategy B (lines 662-687): every element is tried until one whose text
\* names composer.lock has a container
csStrategyB(L, P) ==
  LET named == {n \in L.present : TextContentNames(L, P, n) /\ Container(L, n) # 0}
  IN IF named = {} THEN 0 ELSE Container(L, Min(named))

\* strategy C (lines 690-701): the first diff file
csStrategyC(L, P) ==
  FirstNonNull(csFirstDiffFileSelectors, LAMBDA sel : querySelector(L, 0, sel))

\* console.error at line 705, reached when strategies A to C gave nothing
csNoElementMsg == "Could not find any suitable element in the page for insertion."

\* the element the panel is anchored to (composerLockElement at line 723)
csComposerLockElement(L, P) ==
  LET hits == {i \in 1..Len(COMPOSER_LOCK_SELECTORS) :
                 querySelectorAll(L, 0, COMPOSER_LOCK_SELECTORS[i]) # {}}
      fileElements == IF hits = {} THEN {}
                      ELSE querySelectorAll(L, 0, COMPOSER_LOCK_SELECTORS[Min(hits)])
      withParent == {n \in fileElements :
                       /\ NamesComposerLock(L, P, n)
                       /\ FirstNonNull(PARENT_SELECTORS,
                                       LAMBDA sel : closest(L, n, sel)) # 0}
      textWithParent == {n \in L.present :
                           /\ TextContentNames(L, P, n)
                           /\ FirstNonNull(PARENT_SELECTORS,
                                           LAMBDA sel : closest(L, n, sel)) # 0}
      firstDiffFile == FirstNonNull(csFirstDiffFileSelectors,
                                    LAMBDA sel : querySelector(L, 0, sel))
      diffsContainer == FirstNonNull(FALLBACK_SELECTORS,
                                     LAMBDA sel : querySelector(L, 0, sel))
  IN IF withParent # {}
       THEN FirstNonNull(PARENT_SELECTORS, LAMBDA sel : closest(L, Min(withParent), sel))
     ELSE IF textWithParent # {}
       THEN FirstNonNull(PARENT_SELECTORS, LAMBDA sel : closest(L, Min(textWithParent), sel))
     ELSE IF firstDiffFile # 0 THEN firstDiffFile
     ELSE IF diffsContainer # 0 THEN diffsContainer
     ELSE IF Body \in L.present THEN Body ELSE 0

\* fileContent: the element the panel is prepended to (lines 776-798)
csFileContent(L, composerLockElement) ==
  IF composerLockElement # Body
       /\ FirstNonNull(CONTENT_SELECTORS,
                       LAMBDA sel : querySelector(L, composerLockElement, sel)) # 0
    THEN FirstNonNull(CONTENT_SELECTORS,
                      LAMBDA sel : querySelector(L, composerLockElement, sel))
    ELSE composerLockElement

\* prepend, else appendChild, else document.body.prepend (lines 802-828)
csInsertContainer(P, html, fileContent, thrown) ==
  IF "prepend" \notin thrown
    THEN [panels |-> [P EXCEPT ![fileContent].first = <<html>> \o @], ok |-> TRUE,
          logged |-> {}]
  ELSE IF "appendChild" \notin thrown
    THEN [panels |-> [P EXCEPT ![fileContent].last = Append(@, html)], ok |-> TRUE,
          logged |-> {"Error inserting diff container:"}]
  ELSE IF "bodyPrepend" \notin thrown
    THEN [panels |-> [P EXCEPT ![Body].first = <<html>> \o @], ok |-> TRUE,
          logged |-> {"Error inserting diff container:",
                      "Error inserting diff container using appendChild:"}]
  ELSE [panels |-> P, ok |-> FALSE,
        logged |-> {"Error inserting diff container:",
                    "Error inserting diff container using appendChild:",
                    "Failed to insert diff container anywhere:"}]

\* insertDiffIntoPage(htmlContent) of content.js; with no body the read of
\* composerLockElement.querySelector throws before anything is written
csInsertDiffIntoPage(L, P, html, thrown) ==
  LET composerLockElement == csComposerLockElement(L, P) IN
  IF composerLockElement = 0
    THEN [panels |-> P, ok |-> FALSE, threw |-> TRUE, logged |-> {csNoElementMsg}]
  ELSE LET P1 == RemoveExistingDiff(L, P, composerLockElement)
           r == csInsertContainer(P1, html, csFileContent(L, composerLockElement), thrown)
       IN [panels |-> r.panels, ok |-> r.ok, threw |-> FALSE,
           logged |-> r.logged \cup (IF csStrategyC(L, P) = 0 /\ csStrategyB(L, P) = 0
                                        /\ StrategyA(L, P) = 0
                                      THEN {csNoElementMsg} ELSE {})]

(***************************************************************************)
(* The five strategies of findComposerLockElement of ui.js, each on its    *)
(* own: what the block of the function yields when it is reached.          *)
(***************************************************************************)
\* strategy A (lines 64-85), as StrategyA above: the two files agree
uiStrategyA(L, P) == StrategyA(L, P)

\* strategy B (lines 87-103): the first element whose text names composer.lock
uiStrategyB(L, P) ==
  IF findElementContainingText(L, P) = 0 THEN 0
  ELSE Container(L, findElementContainingText(L, P))

\* strategy C (lines 105-112)
uiStrategyC(L, P) == findElement(L, PARENT_SELECTORS)

\* strategy D (lines 114-121), the same four selectors in content.js (707-710)
StrategyD(L, P) == findElement(L, FALLBACK_SELECTORS)

\* strategy E: return document.body, null in a document without body
StrategyE(L, P) == IF Body \in L.present THEN Body ELSE 0

(***************************************************************************)
(* The page side of the state                                              *)
(***************************************************************************)
\* the two listeners of content.js that schedule initialize:
\* DOMContentLoaded and load
InitializeCalls == 2

Runs == 1..InitializeCalls

NoHist == [calls |-> 0, html |-> <<>>, afterFirst |-> NoPanels]

\* a GitLab merge request diff page that names composer.lock, all requests answered
EnvOK == [manifest |-> "gitlab", onDiffPage |-> TRUE, attrs |-> TRUE, changes |-> "withLock"]

\* no entry point has run
NoEntry == [ran |-> {}, escaped |-> {}]

\* no direct call of insertDiffIntoPage made
NoCall == [called |-> FALSE, anchor |-> 0, target |-> 0, ok |-> FALSE, threw |-> FALSE,
           html |-> <<>>, before |-> NoPanels, logged |-> {}]

\* the raw files answered, no fetch issued
BranchesIdle == [ids |-> TRUE, source |-> EmptyObjectText, target |-> EmptyObjectText,
                 sourceAns |-> "ok", targetAns |-> "ok"]

NoFetches == [source |-> "idle", target |-> "idle"]

FetchIdle ==
  /\ branches = BranchesIdle
  /\ fetches = NoFetches
  /\ fetchCall = "idle"
  /\ order = <<>>

\* what the callback of chrome.tabs.sendMessage gets when the listener
\* returned without calling sendResponse: no response, and lastError set
NoResponse == [sent |-> FALSE, kind |-> "none", found |-> "none"]

\* the popup has sent nothing
PortIdle == [action |-> "none", response |-> NoResponse, status |-> "none"]

ExtIdle == FetchIdle /\ port = PortIdle

PageIdle ==
  /\ impl = "content"
  /\ layout = 1
  /\ panels = NoPanels
  /\ pc = [r \in Runs |-> "done"]
  /\ composerLockFound = FALSE
  /\ diffGenerated = FALSE
  /\ listenerAdded = FALSE
  /\ listenerHtml = <<>>
  /\ scrollTimeout = FALSE
  /\ hist = NoHist
  /\ timers = 0
  /\ listeners = 0
  /\ burst = 0
  /\ gone = 0
  /\ env = EnvOK
  /\ entry = NoEntry
  /\ domFaults = {}
  /\ last = NoCall
  /\ ExtIdle

(***************************************************************************)
(* Specification SpecDiff: the two diff pipelines on bounded inputs        *)
(***************************************************************************)
NotRun == [done |-> FALSE, threw |-> FALSE, error |-> "", diff |-> EmptyDiff,
           html |-> <<>>]

ListsOfLen(n) == [1..n -> Package]

TextsWith(p, d) ==
  {ObjectText(hp, p, hd, d) :
     hp \in (IF p = <<>> THEN BOOLEAN ELSE {TRUE}),
     hd \in (IF d = <<>> THEN BOOLEAN ELSE {TRUE})}
  \cup (IF p = <<>> /\ d = <<>> THEN {MalformedText} ELSE {})

InitDiff ==
  /\ \E l1 \in 0..MaxEntries :
       \E l2 \in 0..(MaxEntries - l1) :
         \E l3 \in 0..(MaxEntries - l1 - l2) :
           \E l4 \in 0..(MaxEntries - l1 - l2 - l3) :
             \E p1 \in ListsOfLen(l1), d1 \in ListsOfLen(l2),
                p2 \in ListsOfLen(l3), d2 \in ListsOfLen(l4) :
               /\ oldContent \in TextsWith(p1, d1)
               /\ newContent \in TextsWith(p2, d2)
  /\ modOut = NotRun
  /\ csOut = NotRun
  /\ log = {}
  /\ PageIdle

\* the modules' pipeline: composerDiff.generateHtml(oldContent, newContent)
ModuleGenerateHtml ==
  /\ ~modOut.done
  /\ LET r == generateHtml(oldContent, newContent) IN
       /\ modOut' = [done |-> TRUE, threw |-> r.threw,
                     error |-> IF r.threw THEN "TypeError" ELSE "",
                     diff |-> r.diff, html |-> r.html]
       /\ log' = log \cup r.logged
  /\ UNCHANGED <<oldContent, newContent, csOut>>
  /\ UNCHANGED pageVars
  /\ UNCHANGED insVars
  /\ UNCHANGED extVars
  /\ UNCHANGED watchVars
  /\ UNCHANGED entryVars

\* the content script's pipeline: await generateComposerDiff(oldContent, newContent);
\* generateDiff's catch logs the error and throws it again
ContentGenerateComposerDiff ==
  /\ ~csOut.done
  /\ LET r == generateComposerDiff(oldContent, newContent) IN
       /\ csOut' = [done |-> TRUE, threw |-> r.threw, error |-> r.error,
                    diff |-> r.diff, html |-> r.html]
       /\ log' = IF r.threw THEN log \cup {GenerateErrorMsg} ELSE log
  /\ UNCHANGED <<oldContent, newContent, modOut>>
  /\ UNCHANGED pageVars
  /\ UNCHANGED insVars
  /\ UNCHANGED extVars
  /\ UNCHANGED watchVars
  /\ UNCHANGED entryVars

NextDiff == ModuleGenerateHtml \/ ContentGenerateComposerDiff

SpecDiff == InitDiff /\ [][NextDiff]_vars

(***************************************************************************)
(* Specification SpecJson: the two diff pipelines on texts that are        *)
(* well-formed JSON, manifests or not                                      *)
(***************************************************************************)
\* the longest section of a manifest of SpecJson
MaxJsonEntries == 1

JsonLists == UNION {ListsOfLen(n) : n \in 0..MaxJsonEntries}

\* well-formed JSON that is no manifest object
NonManifestTexts ==
  {NullText, NumberText, StringText}
  \cup {PackagesNotListText(d) : d \in JsonLists}
  \cup {DevNotListText(p) : p \in JsonLists}

ManifestTexts == {ObjectText(TRUE, p, TRUE, d) : p \in JsonLists, d \in JsonLists}

InitJson ==
  /\ oldContent \in NonManifestTexts \cup ManifestTexts
  /\ newContent \in NonManifestTexts \cup ManifestTexts
  /\ modOut = NotRun
  /\ csOut = NotRun
  /\ log = {}
  /\ PageIdle

SpecJson == InitJson /\ [][NextDiff]_vars

(***************************************************************************)
(* Specification Spec: the panel in the host page                          *)
(***************************************************************************)
\* the locks the two raw fetches can deliver to generateDiff
LockEmpty == ObjectText(TRUE, <<>>, TRUE, <<>>)

LockOne == ObjectText(TRUE, <<[name |-> "a/a", version |-> "1.0"]>>, TRUE, <<>>)

\* <<oldContent, newContent>>: nothing changed, one package added, and the
\* '{}' pair that extractComposerLockContent returns when a fetch fails
PageInputs == {<<LockEmpty, LockEmpty>>, <<LockEmpty, LockOne>>,
               <<EmptyObjectText, EmptyObjectText>>}

\* the DOM calls that throw during one insertion: none in a browser
NoRaise == {}

\* the three DOM calls of the insertion that can throw
Faults == {"prepend", "appendChild", "bodyPrepend"}

Page == AllLayouts[layout]

\* the record of one more call of insertDiffIntoPage(html)
Called(html, after) ==
  IF hist.calls >= 1 /\ hist.html = html
    THEN [hist EXCEPT !.calls = 2]
    ELSE [calls |-> 1, html |-> html, afterFirst |-> after]

Init ==
  /\ oldContent = EmptyObjectText
  /\ newContent = EmptyObjectText
  /\ modOut = NotRun
  /\ csOut = NotRun
  /\ log = {}
  /\ impl \in {"content", "modules"}
  /\ layout \in 1..Len(Layouts)
  /\ panels = NoPanels
  /\ pc = [r \in Runs |-> "start"]
  /\ composerLockFound = FALSE
  /\ diffGenerated = FALSE
  /\ listenerAdded = FALSE
  /\ listenerHtml = <<>>
  /\ scrollTimeout = FALSE
  /\ hist = NoHist
  /\ timers = 0
  /\ listeners = 0
  /\ burst = 0
  /\ gone = 0
  /\ env = EnvOK
  /\ entry = NoEntry
  /\ domFaults = {}
  /\ last = NoCall
  /\ ExtIdle

\* initialize, up to the call of generateDiff: the change list names
\* composer.lock (found) or it does not
InitializeCheck(r, found) ==
  /\ pc[r] = "start"
  /\ composerLockFound' = found
  /\ pc' = [pc EXCEPT ![r] = IF found THEN "fetching" ELSE "done"]
  /\ UNCHANGED <<oldContent, newContent, modOut, csOut, log, impl, layout, panels,
                 diffGenerated, listenerAdded, listenerHtml, scrollTimeout, hist>>
  /\ UNCHANGED insVars
  /\ UNCHANGED extVars
  /\ UNCHANGED watchVars
  /\ UNCHANGED entryVars

\* window.composerDiffScrollListenerAdded is read and written, and the
\* listener is added, with no await in between: listeners registered after it
addScrollEventListenerUnguarded(flag, n) == n + 1

\* if (!window.composerDiffScrollListenerAdded) { ... addEventListener('scroll', ...) }
addScrollEventListener(flag, n) == IF flag THEN n ELSE n + 1

\* a timer that is never cleared
clearTimeoutNothing(pending, t) == t

\* if (this.scrollTimeout) clearTimeout(this.scrollTimeout): the timers that
\* are pending afterwards; clearing a timer that has fired does nothing
clearTimeout(pending, t) == IF pending THEN t - 1 ELSE t

\* the test of the timer callback of content.js besides the absence of a panel
csWatcherGuard == composerLockFound /\ diffGenerated

\* what the host page did to an inserted panel: 0 nothing, 1 it removed the
\* panel, 2 it changed the page again after that
GoneAfterHost(after) ==
  IF gone >= 1 THEN 2
  ELSE IF PanelCount(Page, panels) > 0 /\ after = 0 THEN 1
  ELSE 0

\* an insertion that leaves a panel in the page ends that episode
GoneAfterInsert(after) == IF PanelCount(Page, after) > 0 THEN 0 ELSE gone

\* generateDiff of content.js, from the arrival of the two fetched texts on
csGenerateDiff(r, old, new, raises) ==
  /\ impl = "content"
  /\ pc[r] = "fetching"
  /\ pc' = [pc EXCEPT ![r] = "done"]
  /\ oldContent' = old
  /\ newContent' = new
  /\ LET g == generateComposerDiff(old, new)
         ins == csInsertDiffIntoPage(Page, panels, g.html, raises)
     IN IF g.threw \/ ins.threw
          THEN /\ log' = log \cup {GenerateErrorMsg, csInitializeErrorMsg}
                               \cup (IF g.threw THEN {} ELSE ins.logged)
               /\ UNCHANGED <<panels, diffGenerated, listenerAdded, listenerHtml, hist,
                              listeners, gone>>
          ELSE /\ panels' = ins.panels
               /\ diffGenerated' = (diffGenerated \/ ins.ok)
               /\ listenerAdded' = TRUE
               /\ listeners' = addScrollEventListener(listenerAdded, listeners)
               /\ listenerHtml' = IF listenerAdded THEN listenerHtml ELSE g.html
               /\ hist' = Called(g.html, ins.panels)
               /\ gone' = GoneAfterInsert(ins.panels)
               /\ log' = log \cup ins.logged
  /\ UNCHANGED <<modOut, csOut, impl, layout, composerLockFound, scrollTimeout,
                 timers, burst>>
  /\ UNCHANGED insVars
  /\ UNCHANGED extVars
  /\ UNCHANGED entryVars

\* generateDiff of main.js, from the arrival of the two fetched texts on
mainGenerateDiff(r, old, new, raises) ==
  /\ impl = "modules"
  /\ pc[r] = "fetching"
  /\ pc' = [pc EXCEPT ![r] = "done"]
  /\ oldContent' = old
  /\ newContent' = new
  /\ LET g == generateHtml(old, new)
         ins == insertDiffIntoPage(Page, panels, g.html, raises)
     IN IF g.threw
          THEN /\ log' = log \cup g.logged \cup {mainGenerateErrorMsg}
               /\ UNCHANGED <<panels, hist, gone, diffGenerated, listenerAdded,
                              listeners, listenerHtml>>
          ELSE /\ panels' = ins.panels
               /\ hist' = Called(g.html, ins.panels)
               /\ gone' = GoneAfterInsert(ins.panels)
               /\ log' = log \cup g.logged \cup ins.logged
               /\ IF ins.ok
                    THEN /\ diffGenerated' = TRUE
                         /\ listenerAdded' = TRUE
                         /\ listeners' = addScrollEventListener(listenerAdded, listeners)
                         /\ listenerHtml' = IF listenerAdded THEN listenerHtml ELSE g.html
                    ELSE UNCHANGED <<diffGenerated, listenerAdded, listeners, listenerHtml>>
  /\ UNCHANGED <<modOut, csOut, impl, layout, composerLockFound, scrollTimeout,
                 timers, burst>>
  /\ UNCHANGED insVars
  /\ UNCHANGED extVars
  /\ UNCHANGED entryVars

\* a scroll event reaches the registered listener: the pending timer is
\* cleared and a new one is started
ScrollEvent ==
  /\ listenerAdded
  /\ burst < MaxBurst
  /\ timers' = clearTimeout(scrollTimeout, timers) + 1
  /\ scrollTimeout' = TRUE
  /\ burst' = burst + 1
  /\ UNCHANGED <<oldContent, newContent, modOut, csOut, log, impl, layout, panels, pc,
                 composerLockFound, diffGenerated, listenerAdded, listenerHtml, hist,
                 listeners, gone>>
  /\ UNCHANGED insVars
  /\ UNCHANGED extVars
  /\ UNCHANGED entryVars

\* a debounce timer fires: the panel is inserted again when the page holds none
ScrollTimeoutFires(raises) ==
  /\ timers > 0
  /\ timers' = timers - 1
  /\ scrollTimeout' = (timers > 1)
  /\ burst' = 0
  /\ LET absent == PanelCount(Page, panels) = 0
         go == IF impl = "content" THEN absent /\ csWatcherGuard ELSE absent
         ins == IF impl = "content"
                  THEN csInsertDiffIntoPage(Page, panels, listenerHtml, raises)
                  ELSE insertDiffIntoPage(Page, panels, listenerHtml, raises)
     IN IF go
          THEN /\ panels' = ins.panels
               /\ hist' = Called(listenerHtml, ins.panels)
               /\ gone' = GoneAfterInsert(ins.panels)
               /\ log' = log \cup ins.logged
               /\ entry' = IF impl = "content" /\ ins.threw
                              THEN [entry EXCEPT !.escaped = @ \cup {"watcher"}]
                              ELSE entry
          ELSE UNCHANGED <<panels, hist, gone, log, entry>>
  /\ UNCHANGED env
  /\ UNCHANGED <<oldContent, newContent, modOut, csOut, impl, layout, pc,
                 composerLockFound, diffGenerated, listenerAdded, listenerHtml,
                 listeners>>
  /\ UNCHANGED insVars
  /\ UNCHANGED extVars

\* the host page renders another layout; the panels inside the elements it
\* drops go with them
HostRender(l) ==
  /\ l # layout
  /\ layout' = l
  /\ panels' = [n \in Nodes |->
                  IF n \in Layouts[l].present THEN panels[n]
                  ELSE [first |-> <<>>, last |-> <<>>]]
  /\ hist' = NoHist
  /\ gone' = GoneAfterHost(PanelCount(Layouts[l], panels'))
  /\ UNCHANGED <<oldContent, newContent, modOut, csOut, log, impl, pc, composerLockFound,
                 diffGenerated, listenerAdded, listenerHtml, scrollTimeout,
                 timers, listeners, burst>>
  /\ UNCHANGED insVars
  /\ UNCHANGED extVars
  /\ UNCHANGED entryVars

\* the host page renders the children of one element again and discards the
\* panels injected there
HostDiscardsPanels(n) ==
  /\ PanelsAt(panels, n) # <<>>
  /\ panels' = [panels EXCEPT ![n] = [first |-> <<>>, last |-> <<>>]]
  /\ hist' = NoHist
  /\ gone' = GoneAfterHost(PanelCount(Page, panels'))
  /\ UNCHANGED <<oldContent, newContent, modOut, csOut, log, impl, layout, pc,
                 composerLockFound, diffGenerated, listenerAdded, listenerHtml,
                 scrollTimeout, timers, listeners, burst>>
  /\ UNCHANGED insVars
  /\ UNCHANGED extVars
  /\ UNCHANGED entryVars

Next ==
  \/ \E r \in Runs, found \in BOOLEAN : InitializeCheck(r, found)
  \/ \E r \in Runs, inp \in PageInputs : csGenerateDiff(r, inp[1], inp[2], NoRaise)
  \/ \E r \in Runs, inp \in PageInputs : mainGenerateDiff(r, inp[1], inp[2], NoRaise)
  \/ ScrollEvent
  \/ ScrollTimeoutFires(NoRaise)
  \/ \E l \in 1..Len(Layouts) : HostRender(l)
  \/ \E n \in Nodes : HostDiscardsPanels(n)

Spec == Init /\ [][Next]_vars

(***************************************************************************)
(* Specification FairSpec: Spec with what the browser guarantees: a timer  *)
(* that is pending fires, and a started initialize runs to its end.  Scroll *)
(* events are the user's and the host page's changes are the host's: none  *)
(* of them has to happen.                                                  *)
(***************************************************************************)
\* a step of a generateDiff that has its two texts; such a step is possible
\* exactly while some initialize is at "fetching"
GenerateDiffStep == \E r \in Runs : pc[r] = "fetching" /\ pc'[r] = "done"

\* a step in which a pending debounce timer fires; such a step is possible
\* exactly while a timer is pending
TimerStep == timers' = timers - 1

\* weak fairness of InitializeCheck, of GenerateDiffStep and of TimerStep;
\* for the last two it is written out as "infinitely often not possible, or
\* infinitely often taken"
FairSpec ==
  /\ Spec
  /\ WF_vars(\E r \in Runs, found \in BOOLEAN : InitializeCheck(r, found))
  /\ ([]<>(\A r \in Runs : pc[r] # "fetching") \/ []<><<GenerateDiffStep>>_vars)
  /\ ([]<>(timers = 0) \/ []<><<TimerStep>>_vars)

(***************************************************************************)
(* Specification SpecFault: the page of Spec in which the DOM calls of an  *)
(* insertion may throw.                                                    *)
(***************************************************************************)
\* what throws during one insertion of the faulty page: nothing, or every
\* one of the three calls
FaultSets == {{}, Faults}

NextFault ==
  \/ \E r \in Runs, found \in BOOLEAN : InitializeCheck(r, found)
  \/ \E r \in Runs, inp \in PageInputs, raises \in FaultSets :
       csGenerateDiff(r, inp[1], inp[2], raises)
  \/ \E r \in Runs, inp \in PageInputs, raises \in FaultSets :
       mainGenerateDiff(r, inp[1], inp[2], raises)
  \/ ScrollEvent
  \/ \E raises \in FaultSets : ScrollTimeoutFires(raises)
  \/ \E l \in 1..Len(Layouts) : HostRender(l)
  \/ \E n \in Nodes : HostDiscardsPanels(n)

SpecFault == Init /\ [][NextFault]_vars

(***************************************************************************)
(* Specification SpecInsert: one direct call of insertDiffIntoPage on a    *)
(* page drawn from the layouts, with panels of earlier calls left in it    *)
(* and with DOM calls that throw.                                          *)
(***************************************************************************)
\* the documents the two renderers hand over when nothing changed
InsertHtmls == {NoChangesHtml, <<Newline, Newline>>}

\* the panels an earlier call can have left in the page: none, or one
\* as first child of some element below the root
PanelsLeft(L) ==
  {NoPanels} \cup {[NoPanels EXCEPT ![n].first = <<h>>] :
                     n \in L.present \ {Html}, h \in InsertHtmls}

InitInsert ==
  /\ oldContent = EmptyObjectText
  /\ newContent = EmptyObjectText
  /\ modOut = NotRun
  /\ csOut = NotRun
  /\ log = {}
  /\ impl \in {"content", "modules"}
  /\ layout \in 1..Len(AllLayouts)
  /\ panels \in PanelsLeft(AllLayouts[layout])
  /\ pc = [r \in Runs |-> "done"]
  /\ composerLockFound = TRUE
  /\ diffGenerated = FALSE
  /\ listenerAdded = FALSE
  /\ listenerHtml = <<>>
  /\ scrollTimeout = FALSE
  /\ hist = NoHist
  /\ timers = 0
  /\ listeners = 0
  /\ burst = 0
  /\ gone = 0
  /\ env = EnvOK
  /\ entry = NoEntry
  /\ domFaults \in SUBSET Faults
  /\ last = NoCall
  /\ ExtIdle

\* ui.insertDiffIntoPage(html)
uiInsertDiffIntoPageCall(html) ==
  /\ impl = "modules"
  /\ ~last.called
  /\ LET a == findComposerLockElement(Page, panels)
         r == insertDiffIntoPage(Page, panels, html, domFaults)
     IN /\ panels' = r.panels
        /\ log' = log \cup r.logged
        /\ last' = [called |-> TRUE, anchor |-> a,
                    target |-> IF a = 0 THEN 0 ELSE findContentElement(Page, a),
                    ok |-> r.ok, threw |-> FALSE, html |-> html,
                    before |-> panels, logged |-> r.logged]
  /\ UNCHANGED <<oldContent, newContent, modOut, csOut, impl, layout, pc,
                 composerLockFound, diffGenerated, listenerAdded, listenerHtml,
                 scrollTimeout, hist, domFaults>>
  /\ UNCHANGED watchVars
  /\ UNCHANGED entryVars
  /\ UNCHANGED extVars

\* insertDiffIntoPage(html) of content.js; a successful insertion sets diffGenerated
csInsertDiffIntoPageCall(html) ==
  /\ impl = "content"
  /\ ~last.called
  /\ LET a == csComposerLockElement(Page, panels)
         r == csInsertDiffIntoPage(Page, panels, html, domFaults)
     IN /\ panels' = r.panels
        /\ log' = log \cup r.logged
        /\ diffGenerated' = (diffGenerated \/ r.ok)
        /\ last' = [called |-> TRUE, anchor |-> a,
                    target |-> IF a = 0 THEN 0 ELSE csFileContent(Page, a),
                    ok |-> r.ok, threw |-> r.threw, html |-> html,
                    before |-> panels, logged |-> r.logged]
  /\ UNCHANGED <<oldContent, newContent, modOut, csOut, impl, layout, pc,
                 composerLockFound, listenerAdded, listenerHtml,
                 scrollTimeout, hist, domFaults>>
  /\ UNCHANGED watchVars
  /\ UNCHANGED entryVars
  /\ UNCHANGED extVars

NextInsert ==
  \/ \E html \in InsertHtmls : uiInsertDiffIntoPageCall(html)
  \/ \E html \in InsertHtmls : csInsertDiffIntoPageCall(html)

SpecInsert == InitInsert /\ [][NextInsert]_vars

(***************************************************************************)
(* Specification SpecEntry: the entry points (initialize, the listener for *)
(* the popup's messages, the scroll listener) under every answer of the    *)
(* page and of the server.                                                 *)
(***************************************************************************)
\* manifest: fetch('/-/manifest.json') rejects, answers something that is
\* not JSON, answers the manifest of another application or that of GitLab;
\* onDiffPage: the URL has /merge_requests/ and /diffs; attrs: the body has
\* the data-project-* attributes; changes: the fetch of the change list
\* rejects, answers something that is not JSON, answers an error object, or
\* a change list without or with composer.lock
Envs ==
  [manifest : {"reject", "nonJSON", "other", "gitlab"},
   onDiffPage : BOOLEAN,
   attrs : BOOLEAN,
   changes : {"reject", "nonJSON", "error", "withoutLock", "withLock"}]

\* the two texts generateDiff gets: those of Spec, and a malformed old text
EntryInputs == PageInputs \cup {<<MalformedText, LockEmpty>>}

\* the bug of generating the diff whatever checkForComposerLock returned
csInitializeStartWithoutLockCheck(e, hasBody) ==
  IF e.manifest \in {"reject", "nonJSON"}
    THEN [escaped |-> TRUE, found |-> composerLockFound, generates |-> FALSE, logged |-> {}]
  ELSE IF e.manifest # "gitlab" \/ ~e.onDiffPage
    THEN [escaped |-> FALSE, found |-> composerLockFound, generates |-> FALSE, logged |-> {}]
  ELSE IF ~hasBody
    THEN [escaped |-> TRUE, found |-> composerLockFound, generates |-> FALSE, logged |-> {}]
  ELSE IF e.changes \in {"reject", "nonJSON"}
    THEN [escaped |-> TRUE, found |-> composerLockFound, generates |-> FALSE, logged |-> {}]
  ELSE [escaped |-> FALSE, found |-> TRUE, generates |-> TRUE, logged |-> {}]

\* initialize of content.js up to the call of generateDiff.  Only
\* checkForComposerLock and generateDiff are inside its try block.
csInitializeStart(e, hasBody) ==
  IF e.manifest \in {"reject", "nonJSON"}
    THEN [escaped |-> TRUE, found |-> composerLockFound, generates |-> FALSE, logged |-> {}]
  ELSE IF e.manifest # "gitlab" \/ ~e.onDiffPage
    THEN [escaped |-> FALSE, found |-> composerLockFound, generates |-> FALSE, logged |-> {}]
  ELSE IF ~hasBody
    THEN [escaped |-> TRUE, found |-> composerLockFound, generates |-> FALSE, logged |-> {}]
  ELSE IF e.changes \in {"reject", "nonJSON"}
    THEN [escaped |-> TRUE, found |-> composerLockFound, generates |-> FALSE, logged |-> {}]
  ELSE [escaped |-> FALSE, found |-> (e.changes = "withLock"),
        generates |-> (e.changes = "withLock"), logged |-> {}]

\* initialize of main.js up to the call of generateDiff: all of it is
\* inside one try block
mainInitializeStart(e, hasBody) ==
  IF e.manifest \in {"reject", "nonJSON"}
    THEN [escaped |-> FALSE, found |-> composerLockFound, generates |-> FALSE,
          logged |-> {"Error checking if page is GitLab instance"}]
  ELSE IF e.manifest # "gitlab" \/ ~e.onDiffPage
    THEN [escaped |-> FALSE, found |-> composerLockFound, generates |-> FALSE, logged |-> {}]
  ELSE IF ~hasBody
    THEN [escaped |-> FALSE, found |-> composerLockFound, generates |-> FALSE,
          logged |-> {"Could not find body element",
                      "Could not extract project information from page"}]
  ELSE IF ~e.attrs
    THEN [escaped |-> FALSE, found |-> composerLockFound, generates |-> FALSE,
          logged |-> {"Could not extract project information from page"}]
  ELSE IF e.changes \in {"reject", "nonJSON", "error"}
    THEN [escaped |-> FALSE, found |-> composerLockFound, generates |-> FALSE,
          logged |-> {"Error loading merge request changes",
                      "Error during initialization"}]
  ELSE [escaped |-> FALSE, found |-> (e.changes = "withLock"),
        generates |-> (e.changes = "withLock"), logged |-> {}]

InitEntry ==
  /\ oldContent = EmptyObjectText
  /\ newContent = EmptyObjectText
  /\ modOut = NotRun
  /\ csOut = NotRun
  /\ log = {}
  /\ impl \in {"content", "modules"}
  /\ layout \in {4, Len(AllLayouts)}
  /\ panels = NoPanels
  /\ pc = [r \in Runs |-> "start"]
  /\ composerLockFound = FALSE
  /\ diffGenerated = FALSE
  /\ listenerAdded = FALSE
  /\ listenerHtml = <<>>
  /\ scrollTimeout = FALSE
  /\ hist = NoHist
  /\ timers = 0
  /\ listeners = 0
  /\ burst = 0
  /\ gone = 0
  /\ env \in Envs
  /\ entry = NoEntry
  /\ domFaults = {}
  /\ last = NoCall
  /\ ExtIdle

\* one scheduled initialize runs up to its call of generateDiff
Initialize(r) ==
  /\ pc[r] = "start"
  /\ LET o == IF impl = "content"
                THEN csInitializeStart(env, Body \in Page.present)
                ELSE mainInitializeStart(env, Body \in Page.present)
     IN /\ composerLockFound' = o.found
        /\ log' = log \cup o.logged
        /\ pc' = [pc EXCEPT ![r] = IF o.generates THEN "fetching" ELSE "done"]
        /\ entry' = [ran |-> entry.ran \cup {"initialize"},
                     escaped |-> entry.escaped \cup
                                   (IF o.escaped THEN {"initialize"} ELSE {})]
  /\ UNCHANGED <<oldContent, newContent, modOut, csOut, impl, layout, panels,
                 diffGenerated, listenerAdded, listenerHtml, scrollTimeout, hist, env>>
  /\ UNCHANGED insVars
  /\ UNCHANGED extVars
  /\ UNCHANGED watchVars

\* what the listener of content.js hands to sendResponse: {found: true}, or
\* {found: <the promise of the async checkForComposerLock>}, or the debug
\* information; for any other action it returns without a response
csResponse(action, found) ==
  IF action = "checkComposerLock"
    THEN [sent |-> TRUE, kind |-> "found", found |-> IF found THEN "true" ELSE "promise"]
  ELSE IF action = "getDebugInfo"
    THEN [sent |-> TRUE, kind |-> "debugInfo", found |-> "none"]
  ELSE NoResponse

\* what handleMessage of main.js hands to sendResponse
mainResponse(action, found) ==
  IF action = "checkComposerLock"
    THEN [sent |-> TRUE, kind |-> "found", found |-> IF found THEN "true" ELSE "false"]
  ELSE IF action = "getDebugInfo"
    THEN [sent |-> TRUE, kind |-> "debugInfo", found |-> "none"]
  ELSE NoResponse

\* the callbacks of popup.js: the text the popup shows for the response
PopupStatus(action, response) ==
  IF action = "getDebugInfo"
    THEN "unchanged"
  ELSE IF ~response.sent
    THEN "Error communicating with the page. Please refresh and try again."
  ELSE IF action = "checkComposerLock"
    THEN (IF response.kind = "found" /\ response.found # "false"
            THEN "Found composer.lock in the merge request!"
            ELSE "No composer.lock file found in this merge request.")
  ELSE IF action = "refreshDiff"
    THEN (IF response.kind = "success"
            THEN "Diff refreshed successfully!" ELSE "Failed to refresh diff. ")
  ELSE (IF response.kind = "markdown"
          THEN "Markdown copied to clipboard!" ELSE "Failed to get markdown diff. ")

\* one message of the popup, the listener's response and the popup's reaction
Exchange(action, response) ==
  [action |-> action, response |-> response, status |-> PopupStatus(action, response)]

\* the listener of chrome.runtime.onMessage of content.js.  checkForComposerLock
\* is async and is called with no argument: its read of changes.changes
\* rejects the promise it returns, which nothing awaits or catches.
csOnMessage(action) ==
  /\ impl = "content"
  /\ entry' = [ran |-> entry.ran \cup {action},
               escaped |-> entry.escaped \cup
                             (IF action = "checkComposerLock" /\ ~composerLockFound
                                THEN {action} ELSE {})]
  /\ port' = Exchange(action, csResponse(action, composerLockFound))
  /\ UNCHANGED <<oldContent, newContent, modOut, csOut, log, impl, layout, panels, pc,
                 composerLockFound, diffGenerated, listenerAdded, listenerHtml,
                 scrollTimeout, hist, env>>
  /\ UNCHANGED insVars
  /\ UNCHANGED fetchVars
  /\ UNCHANGED watchVars

\* handleMessage of main.js
handleMessage(action) ==
  /\ impl = "modules"
  /\ entry' = [entry EXCEPT !.ran = @ \cup {action}]
  /\ port' = Exchange(action, mainResponse(action, composerLockFound))
  /\ UNCHANGED <<oldContent, newContent, modOut, csOut, log, impl, layout, panels, pc,
                 composerLockFound, diffGenerated, listenerAdded, listenerHtml,
                 scrollTimeout, hist, env>>
  /\ UNCHANGED insVars
  /\ UNCHANGED fetchVars
  /\ UNCHANGED watchVars

NextEntry ==
  \/ \E r \in Runs : Initialize(r)
  \/ \E r \in Runs, inp \in EntryInputs : csGenerateDiff(r, inp[1], inp[2], NoRaise)
  \/ \E r \in Runs, inp \in EntryInputs : mainGenerateDiff(r, inp[1], inp[2], NoRaise)
  \/ \E action \in {"checkComposerLock", "getDebugInfo"} : csOnMessage(action)
  \/ \E action \in {"checkComposerLock", "getDebugInfo"} : handleMessage(action)
  \/ ScrollEvent
  \/ ScrollTimeoutFires(NoRaise)

SpecEntry == InitEntry /\ [][NextEntry]_vars

(***************************************************************************)
(* Specification SpecPopup: the page with every message the popup sends    *)
(***************************************************************************)
\* the actions of the four chrome.tabs.sendMessage calls of popup.js
PopupActions == {"checkComposerLock", "getDebugInfo", "refreshDiff", "getMarkdownDiff"}

NextPopup ==
  \/ \E r \in Runs : Initialize(r)
  \/ \E r \in Runs, inp \in EntryInputs : csGenerateDiff(r, inp[1], inp[2], NoRaise)
  \/ \E r \in Runs, inp \in EntryInputs : mainGenerateDiff(r, inp[1], inp[2], NoRaise)
  \/ \E action \in PopupActions : csOnMessage(action)
  \/ \E action \in PopupActions : handleMessage(action)
  \/ ScrollEvent
  \/ ScrollTimeoutFires(NoRaise)

SpecPopup == InitEntry /\ [][NextPopup]_vars

(***************************************************************************)
(* Specification SpecFetch: the two raw fetches of composer.lock and the   *)
(* diff of what they deliver                                               *)
(***************************************************************************)
LockTwo == ObjectText(TRUE, <<[name |-> "b/b", version |-> "2.0"]>>,
                      TRUE, <<[name |-> "a/a", version |-> "2.0"]>>)

\* the composer.lock files a branch can hold
FetchTexts == {LockEmpty, LockOne, LockTwo}

\* how a fetch() settles: a response with ok, a response without ok, a
\* rejection (network failure)
Answers == {"ok", "notOk", "reject"}

Sides == {"source", "target"}

Ans(b, side) == IF side = "source" THEN b.sourceAns ELSE b.targetAns

FallbackPair == [oldContent |-> EmptyObjectText, newContent |-> EmptyObjectText]

\* fetchComposerLockContent of GitLabApi, from the settling of Promise.all on
fetchComposerLockContent(b, rejected) ==
  IF rejected
    THEN FallbackPair @@ [logged |-> {"Error fetching composer.lock content"}]
  ELSE IF b.sourceAns = "ok" /\ b.targetAns = "ok"
    THEN [oldContent |-> b.target, newContent |-> b.source, logged |-> {}]
  ELSE FallbackPair @@
       [logged |-> (IF b.sourceAns # "ok" THEN {"Source file fetch failed"} ELSE {})
                   \cup (IF b.targetAns # "ok" THEN {"Target file fetch failed"} ELSE {})]

\* extractComposerLockContent of content.js, from the settling of Promise.all on
extractComposerLockContent(b, rejected) ==
  IF rejected
    THEN FallbackPair @@ [logged |-> {"Error fetching complete composer.lock files:"}]
  ELSE IF b.sourceAns = "ok" /\ b.targetAns = "ok"
    THEN [oldContent |-> b.target, newContent |-> b.source, logged |-> {}]
  ELSE FallbackPair @@
       [logged |-> (IF b.sourceAns # "ok"
                      THEN {"Source file fetch failed with status:"} ELSE {})
                   \cup (IF b.targetAns # "ok"
                           THEN {"Target file fetch failed with status:"} ELSE {})]

InitFetch ==
  /\ oldContent = EmptyObjectText
  /\ newContent = EmptyObjectText
  /\ modOut = NotRun
  /\ csOut = NotRun
  /\ log = {}
  /\ impl \in {"content", "modules"}
  /\ layout = 1
  /\ panels = NoPanels
  /\ pc = [r \in Runs |-> "fetching"]
  /\ composerLockFound = TRUE
  /\ diffGenerated = FALSE
  /\ listenerAdded = FALSE
  /\ listenerHtml = <<>>
  /\ scrollTimeout = FALSE
  /\ hist = NoHist
  /\ timers = 0
  /\ listeners = 0
  /\ burst = 0
  /\ gone = 0
  /\ env = EnvOK
  /\ entry = NoEntry
  /\ domFaults = {}
  /\ last = NoCall
  /\ branches \in [ids : BOOLEAN, source : FetchTexts, target : FetchTexts,
                   sourceAns : Answers, targetAns : Answers]
  /\ fetches = NoFetches
  /\ fetchCall = "idle"
  /\ order = <<>>
  /\ port = PortIdle

\* the call up to its await: the module's method throws when the page gave
\* no project path or branch; otherwise the two fetch() calls are made, in
\* the array literal handed to Promise.all, before anything is awaited
StartFetch ==
  /\ fetchCall = "idle"
  /\ IF impl = "modules" /\ ~branches.ids
       THEN /\ fetchCall' = "threw"
            /\ log' = log \cup {mainGenerateErrorMsg}
            /\ UNCHANGED fetches
       ELSE /\ fetchCall' = "awaiting"
            /\ fetches' = [s \in Sides |-> "pending"]
            /\ UNCHANGED log
  /\ UNCHANGED <<oldContent, newContent, modOut, csOut, branches, order>>
  /\ UNCHANGED pageVars
  /\ UNCHANGED insVars
  /\ UNCHANGED watchVars
  /\ UNCHANGED port
  /\ UNCHANGED entryVars

\* the server's answer to one of the two requests arrives
FetchSettles(side) ==
  /\ fetches[side] = "pending"
  /\ fetches' = [fetches EXCEPT ![side] = "settled"]
  /\ order' = Append(order, side)
  /\ UNCHANGED <<branches, fetchCall>>
  /\ UNCHANGED diffVars
  /\ UNCHANGED pageVars
  /\ UNCHANGED insVars
  /\ UNCHANGED watchVars
  /\ UNCHANGED port
  /\ UNCHANGED entryVars

\* Promise.all rejects with the first rejection and fulfils once both
\* fetches are fulfilled
Rejected == \E s \in Sides : fetches[s] = "settled" /\ Ans(branches, s) = "reject"

PromiseAllSettled == Rejected \/ \A s \in Sides : fetches[s] = "settled"

\* the call from its await on: the pair it returns to generateDiff
FetchReturns ==
  /\ fetchCall = "awaiting"
  /\ PromiseAllSettled
  /\ fetchCall' = "returned"
  /\ LET r == IF impl = "modules"
                THEN fetchComposerLockContent(branches, Rejected)
                ELSE extractComposerLockContent(branches, Rejected)
     IN /\ oldContent' = r.oldContent
        /\ newContent' = r.newContent
        /\ log' = log \cup r.logged
  /\ UNCHANGED <<modOut, csOut, branches, fetches, order>>
  /\ UNCHANGED pageVars
  /\ UNCHANGED insVars
  /\ UNCHANGED watchVars
  /\ UNCHANGED port
  /\ UNCHANGED entryVars

\* generateDiff of main.js goes on with composerDiff.generateHtml
FetchedGenerateHtml ==
  /\ fetchCall = "returned"
  /\ impl = "modules"
  /\ ModuleGenerateHtml

\* generateDiff of content.js goes on with generateComposerDiff
FetchedGenerateComposerDiff ==
  /\ fetchCall = "returned"
  /\ impl = "content"
  /\ ContentGenerateComposerDiff

NextFetch ==
  \/ StartFetch
  \/ \E s \in Sides : FetchSettles(s)
  \/ FetchReturns
  \/ FetchedGenerateHtml
  \/ FetchedGenerateComposerDiff

SpecFetch == InitFetch /\ [][NextFetch]_vars

(***************************************************************************)
(* What the two snapshots say, read off the texts themselves: the set of   *)
(* package names of a snapshot and, per name, its section and version (a   *)
(* missing section counts as empty; of several entries of one name the     *)
(* last of "packages-dev", else the last of "packages", is the entry).     *)
(***************************************************************************)
NamesIn(list) == {list[i].name : i \in 1..Len(list)}

LastVersion(list, n) ==
  LET i == CHOOSE k \in 1..Len(list) :
             /\ list[k].name = n
             /\ \A m \in (k+1)..Len(list) : list[m].name # n
  IN list[i].version

RegNames(text) == NamesIn(text.packages) \cup NamesIn(text.dev)

RegSection(text, n) == IF n \in NamesIn(text.dev) THEN "require-dev" ELSE "require"

RegVersion(text, n) ==
  IF n \in NamesIn(text.dev) THEN LastVersion(text.dev, n)
  ELSE LastVersion(text.packages, n)

InBoth == RegNames(oldContent) \cap RegNames(newContent)

SameVersion(n) == RegVersion(oldContent, n) = RegVersion(newContent, n)

SameSection(n) == RegSection(oldContent, n) = RegSection(newContent, n)

ExpAdded == RegNames(newContent) \ RegNames(oldContent)

ExpRemoved == RegNames(oldContent) \ RegNames(newContent)

ExpUpdated == {n \in InBoth : ~SameVersion(n) \/ ~SameSection(n)}

BothSections(text) == text.kind = "object" /\ text.hasPackages /\ text.hasDev

\* the outcomes of the two implementations that produced a diff
DiffsProduced ==
  (IF modOut.done THEN {modOut.diff} ELSE {})
  \cup (IF csOut.done /\ ~csOut.threw THEN {csOut.diff} ELSE {})

AddedAre(d, text) ==
  /\ Keys(d.added) = RegNames(text)
  /\ \A n \in RegNames(text) :
       LET r == GetKey(d.added, n) IN
         /\ r.newVersion = RegVersion(text, n)
         /\ r.newSection = RegSection(text, n)
         /\ r.previousVersion = Null
         /\ r.previousSection = Null

RemovedAre(d, text) ==
  /\ Keys(d.removed) = RegNames(text)
  /\ \A n \in RegNames(text) :
       LET r == GetKey(d.removed, n) IN
         /\ r.previousVersion = RegVersion(text, n)
         /\ r.previousSection = RegSection(text, n)
         /\ r.newVersion = Null
         /\ r.newSection = Null

(***************************************************************************)
(* C1: a package present in both snapshots with the same version but in    *)
(* different sections is in `updated` only, with previousVersion equal to  *)
(* newVersion and previousSection different from newSection, in the diff   *)
(* of generateDiff (module) and in the diff of getDiff (content script).   *)
(***************************************************************************)
SectionMoveUpdatedIn(d) ==
  \A n \in InBoth :
    (SameVersion(n) /\ ~SameSection(n)) =>
      /\ HasKey(d.updated, n)
      /\ ~HasKey(d.added, n)
      /\ ~HasKey(d.removed, n)
      /\ GetKey(d.updated, n).previousVersion = GetKey(d.updated, n).newVersion
      /\ GetKey(d.updated, n).previousSection # GetKey(d.updated, n).newSection

C1_SectionMoveIsUpdated == \A d \in DiffsProduced : SectionMoveUpdatedIn(d)

\* the part of C1 that is about the module's generateDiff alone
C1_ModuleSectionMoveIsUpdated == modOut.done => SectionMoveUpdatedIn(modOut.diff)

(***************************************************************************)
(* C2: diffing a registry against itself (a name listed in both sections   *)
(* included) yields empty added, updated and removed, in both              *)
(* implementations; the content script completes when the text has both    *)
(* sections.                                                               *)
(***************************************************************************)
SameRegistry ==
  /\ oldContent.kind = "object"
  /\ newContent.kind = "object"
  /\ RegNames(oldContent) = RegNames(newContent)
  /\ \A n \in InBoth : SameVersion(n) /\ SameSection(n)

C2_SelfDiffIsEmpty ==
  SameRegistry =>
    /\ modOut.done => modOut.diff = EmptyDiff
    /\ (csOut.done /\ BothSections(oldContent) /\ BothSections(newContent)) =>
         (~csOut.threw /\ csOut.diff = EmptyDiff)

C2_Witness ==
  /\ oldContent = newContent
  /\ oldContent.kind = "object"
  /\ NamesIn(oldContent.packages) \cap NamesIn(oldContent.dev) # {}
  /\ modOut.done
  /\ csOut.done
  /\ ~csOut.threw

(***************************************************************************)
(* C3: when the old and the new registry share no package name, `added`    *)
(* holds exactly the packages of the new one (its version and section,     *)
(* previous side null), `removed` exactly the packages of the old one (its *)
(* version and section, new side null), and `updated` is empty.            *)
(***************************************************************************)
C3_DisjointRegistries ==
  (InBoth = {}) =>
    \A d \in DiffsProduced :
      /\ AddedAre(d, newContent)
      /\ RemovedAre(d, oldContent)
      /\ d.updated = <<>>

C3_Witness ==
  /\ InBoth = {}
  /\ NamesIn(oldContent.packages) # {}
  /\ NamesIn(newContent.dev) # {}
  /\ modOut.done
  /\ Len(modOut.diff.added) = 1
  /\ Len(modOut.diff.removed) = 1

(***************************************************************************)
(* C4: a name present in both snapshots is in `updated`, with both sides   *)
(* populated, if and only if its version or its section differs; when both *)
(* are the same it is in no category.                                      *)
(***************************************************************************)
UpdatedIffDiffersIn(d) ==
  \A n \in InBoth :
    /\ HasKey(d.updated, n) <=> (~SameVersion(n) \/ ~SameSection(n))
    /\ HasKey(d.updated, n) =>
         LET r == GetKey(d.updated, n) IN
           /\ r.previousVersion = RegVersion(oldContent, n)
           /\ r.previousSection = RegSection(oldContent, n)
           /\ r.newVersion = RegVersion(newContent, n)
           /\ r.newSection = RegSection(newContent, n)
    /\ (SameVersion(n) /\ SameSection(n)) =>
         (~HasKey(d.added, n) /\ ~HasKey(d.updated, n) /\ ~HasKey(d.removed, n))

C4_UpdatedIffDiffers == \A d \in DiffsProduced : UpdatedIffDiffersIn(d)

\* the part of C4 that is about the module's generateDiff alone
C4_ModuleUpdatedIffDiffers == modOut.done => UpdatedIffDiffersIn(modOut.diff)

(***************************************************************************)
(* C5: added, updated and removed are pairwise disjoint by name, their     *)
(* union is exactly the set of names whose presence, section or version    *)
(* differs between the snapshots, and every record is of exactly one of    *)
(* the three shapes (previous side null; new side null; both sides set and *)
(* version or section different).                                          *)
(***************************************************************************)
ShapeCount(r) ==
  (IF r.previousSection = Null THEN 1 ELSE 0)
  + (IF r.newSection = Null THEN 1 ELSE 0)
  + (IF /\ r.previousSection # Null
        /\ r.newSection # Null
        /\ (r.previousVersion # r.newVersion \/ r.previousSection # r.newSection)
       THEN 1 ELSE 0)

RecordsOf(d) ==
  {d.added[i] : i \in 1..Len(d.added)}
  \cup {d.updated[i] : i \in 1..Len(d.updated)}
  \cup {d.removed[i] : i \in 1..Len(d.removed)}

PartitionIn(d) ==
  /\ Keys(d.added) \cap Keys(d.updated) = {}
  /\ Keys(d.added) \cap Keys(d.removed) = {}
  /\ Keys(d.updated) \cap Keys(d.removed) = {}
  /\ Keys(d.added) \cup Keys(d.updated) \cup Keys(d.removed)
       = ExpAdded \cup ExpRemoved \cup ExpUpdated
  /\ \A r \in RecordsOf(d) : ShapeCount(r) = 1

C5_DisjointAndCovering == \A d \in DiffsProduced : PartitionIn(d)

\* the part of C5 that is about the module's generateDiff alone
C5_ModuleDisjointAndCovering == modOut.done => PartitionIn(modOut.diff)

(***************************************************************************)
(* C6: when all three categories are empty the rendered document is the    *)
(* single "no changes" placeholder, for the module's generateHtml and for  *)
(* the content script's renderHtml.                                        *)
(***************************************************************************)
C6_EmptyDiffRendersPlaceholder ==
  /\ (modOut.done /\ modOut.diff = EmptyDiff) => modOut.html = NoChangesHtml
  /\ (csOut.done /\ ~csOut.threw /\ csOut.diff = EmptyDiff) => csOut.html = NoChangesHtml

\* the part of C6 that is about the module's generateHtml alone
C6_ModuleEmptyDiffRendersPlaceholder ==
  (modOut.done /\ modOut.diff = EmptyDiff) => modOut.html = NoChangesHtml

(***************************************************************************)
(* C7: with a malformed old text and a valid new text, parsing does not    *)
(* raise, the parse failure is logged, the old side is empty and every     *)
(* package of the new manifest is in `added` (none in updated or removed), *)
(* in the module and in the content script.                                *)
(***************************************************************************)
MalformedOldValidNew ==
  oldContent.kind = "malformed" /\ BothSections(newContent)

C7_MalformedOldAllAdded ==
  MalformedOldValidNew =>
    /\ modOut.done =>
         /\ ParseErrorMsg \in log
         /\ AddedAre(modOut.diff, newContent)
         /\ modOut.diff.updated = <<>>
         /\ modOut.diff.removed = <<>>
    /\ csOut.done =>
         /\ ~csOut.threw
         /\ AddedAre(csOut.diff, newContent)
         /\ csOut.diff.updated = <<>>
         /\ csOut.diff.removed = <<>>

\* the part of C7 that is about the module's parseComposerLock alone
C7_ModuleMalformedOldAllAdded ==
  (MalformedOldValidNew /\ modOut.done) =>
    /\ ParseErrorMsg \in log
    /\ AddedAre(modOut.diff, newContent)
    /\ modOut.diff.updated = <<>>
    /\ modOut.diff.removed = <<>>

(***************************************************************************)
(* C8: a snapshot that lacks "packages", "packages-dev" or both (the text  *)
(* {} for one) is diffed as if the missing section were the empty list,    *)
(* and no error is raised, in the module and in the content script.        *)
(***************************************************************************)
LacksSection(text) == text.kind = "object" /\ ~(text.hasPackages /\ text.hasDev)

AsIfEmptyIn(d) ==
  /\ Keys(d.added) = ExpAdded
  /\ Keys(d.removed) = ExpRemoved
  /\ Keys(d.updated) \subseteq ExpUpdated

C8_MissingSectionIsEmpty ==
  ((LacksSection(oldContent) \/ LacksSection(newContent))
     /\ oldContent.kind = "object" /\ newContent.kind = "object") =>
    /\ modOut.done => AsIfEmptyIn(modOut.diff)
    /\ csOut.done => (~csOut.threw /\ AsIfEmptyIn(csOut.diff))

\* the part of C8 that is about the module's generateDiff alone
C8_ModuleMissingSectionIsEmpty ==
  ((LacksSection(oldContent) \/ LacksSection(newContent)) /\ modOut.done) =>
    (Keys(modOut.diff.added) = ExpAdded
       /\ Keys(modOut.diff.removed) = ExpRemoved
       /\ Keys(modOut.diff.updated) = ExpUpdated)

(***************************************************************************)
(* C11: once an inserted panel has been removed by the host page and the   *)
(* page has changed again, the watcher puts exactly one panel back, with   *)
(* no scroll or other action of the user needed.                           *)
(***************************************************************************)
C11_ReinsertedAfterMutation == (gone = 2) ~> (PanelCount(Page, panels) = 1)

(***************************************************************************)
(* C12: at most one scroll listener is ever registered, whatever the       *)
(* number and interleaving of the generateDiff calls.                      *)
(***************************************************************************)
C12_AtMostOneListener == listeners <= 1

\* two insertions in succession have been made and one listener is there
C12_Witness ==
  /\ listeners = 1
  /\ hist.calls = 2
  /\ pc = [r \in Runs |-> "done"]
  /\ timers = 0

(***************************************************************************)
(* C13: at most one presence-check timer is pending; it is pending exactly *)
(* while scroll events have arrived since the last presence check, so a    *)
(* burst of events is followed by one check, made after its last event.    *)
(***************************************************************************)
C13_Debounced ==
  /\ timers <= 1
  /\ (timers = 1) = (burst > 0)
  /\ scrollTimeout = (timers = 1)

\* a burst of several events with its one timer pending
C13_Witness == burst >= 2 /\ timers = 1

(***************************************************************************)
(* C18: once a locate-and-insert cycle has failed, the watcher is          *)
(* registered and its callback inserts when it finds no panel.             *)
(***************************************************************************)
\* the messages that the failure of an insertion leaves in the log
InsertFailedMsgs ==
  {"Could not find any element to insert diff into",
   "Cannot insert element: element or parent is null",
   "Error inserting element using prepend",
   "Failed to insert diff container anywhere:"}

WatcherActive == listenerAdded /\ (impl = "content" => csWatcherGuard)

C18_WatcherActiveAfterFailedCycle ==
  (log \cap InsertFailedMsgs # {}) => WatcherActive

(***************************************************************************)
(* Helpers for the claims on the locator: L and P are the page and the     *)
(* panels the recorded call found.                                         *)
(***************************************************************************)
\* the first of a list of strategy results that is an element, else 0
FirstYield(results) ==
  LET hits == {i \in 1..Len(results) : results[i] # 0}
  IN IF hits = {} THEN 0 ELSE results[Min(hits)]

\* what the five strategies of the running implementation yield, A to E
StrategyResults(L, P) ==
  IF impl = "modules"
    THEN <<uiStrategyA(L, P), uiStrategyB(L, P), uiStrategyC(L, P),
           StrategyD(L, P), StrategyE(L, P)>>
    ELSE <<StrategyA(L, P), csStrategyB(L, P), csStrategyC(L, P),
           StrategyD(L, P), StrategyE(L, P)>>

\* the elements that some structural selector matches, that name
\* composer.lock and that have a container
NamedByStructure(L, P) ==
  {n \in L.present :
     /\ \E i \in 1..Len(COMPOSER_LOCK_SELECTORS) : Matches(L, n, COMPOSER_LOCK_SELECTORS[i])
     /\ NamesComposerLock(L, P, n)
     /\ Container(L, n) # 0}

\* the elements whose text names composer.lock and that have a container
NamedByText(L, P) ==
  {n \in L.present : TextContentNames(L, P, n) /\ Container(L, n) # 0}

(***************************************************************************)
(* C14: the locator returns what the first of the strategies A, B, C, D, E *)
(* that yields an element yields on the page of the call; so a result of   *)
(* strategy k is returned only when all strategies before k yield nothing, *)
(* and no result is combined from several strategies.                      *)
(***************************************************************************)
C14_StrategiesInOrder ==
  last.called => last.anchor = FirstYield(StrategyResults(Page, last.before))

\* strategy C decides although D and E yield an element as well
C14_Witness ==
  /\ last.called
  /\ StrategyResults(Page, last.before)[1] = 0
  /\ StrategyResults(Page, last.before)[2] = 0
  /\ StrategyResults(Page, last.before)[3] # 0
  /\ StrategyResults(Page, last.before)[4] # 0
  /\ StrategyResults(Page, last.before)[4] # StrategyResults(Page, last.before)[3]
  /\ last.anchor = StrategyResults(Page, last.before)[3]

(***************************************************************************)
(* C15: whenever some element matched by any of the structural selectors   *)
(* names composer.lock (text, data-path or title) and has a container, the *)
(* locator returns the container of such an element.                       *)
(***************************************************************************)
C15_StrategyAFindsNamedElement ==
  (last.called /\ NamedByStructure(Page, last.before) # {}) =>
    last.anchor \in {Container(Page, n) : n \in NamedByStructure(Page, last.before)}

\* the same for the pages on which the first structural selector that
\* matches anything matches an element that names composer.lock
C15_FirstSelectorNames ==
  (last.called /\ StrategyResults(Page, last.before)[1] # 0) =>
    last.anchor \in {Container(Page, n) : n \in NamedByStructure(Page, last.before)}

(***************************************************************************)
(* C16: when strategy A yields nothing and some element whose text names   *)
(* composer.lock has a container, the locator returns the container of     *)
(* such an element, not a result of strategy C, D or E.                    *)
(***************************************************************************)
C16_StrategyBScansAllElements ==
  (/\ last.called
   /\ StrategyA(Page, last.before) = 0
   /\ NamedByText(Page, last.before) # {}) =>
    last.anchor \in {Container(Page, n) : n \in NamedByText(Page, last.before)}

\* the same for the content script alone
C16_ContentStrategyBScansAllElements ==
  impl = "content" => C16_StrategyBScansAllElements

(***************************************************************************)
(* C17: the panel is prepended to the content target; if that throws it is *)
(* appended to the same target as last child; if that throws too it is     *)
(* prepended to the body; the call fails only when all three have thrown.  *)
(***************************************************************************)
\* the page the chain of three techniques leaves when it starts from P1
AfterChain(P1, html, target, thrown) ==
  IF "prepend" \notin thrown THEN [P1 EXCEPT ![target].first = <<html>> \o @]
  ELSE IF "appendChild" \notin thrown THEN [P1 EXCEPT ![target].last = Append(@, html)]
  ELSE IF "bodyPrepend" \notin thrown THEN [P1 EXCEPT ![Body].first = <<html>> \o @]
  ELSE P1

C17_InsertionFallbackChain ==
  (last.called /\ last.anchor # 0) =>
    /\ panels = AfterChain(RemoveExistingDiff(Page, last.before, last.anchor),
                           last.html, last.target, domFaults)
    /\ last.ok = (domFaults # Faults)

\* the same for the content script alone
C17_ContentInsertionFallbackChain ==
  impl = "content" => C17_InsertionFallbackChain

(***************************************************************************)
(* C19: the locator returns no element exactly when the document has no    *)
(* body; and then the insertion logs, reports failure, leaves the page as  *)
(* it was and does not throw.                                              *)
(***************************************************************************)
C19_NoAnchorOnlyWithoutBody ==
  last.called =>
    /\ (last.anchor = 0) = (Body \notin Page.present)
    /\ last.anchor = 0 =>
         /\ ~last.threw
         /\ ~last.ok
         /\ last.logged # {}
         /\ panels = last.before

\* the same for the modules alone
C19_ModuleNoAnchorOnlyWithoutBody ==
  impl = "modules" => C19_NoAnchorOnlyWithoutBody

(***************************************************************************)
(* C20: no entry point ends with an uncaught exception or an unhandled     *)
(* promise rejection, whatever the page and the server answer.             *)
(***************************************************************************)
C20_NoErrorEscapes == entry.escaped = {}

\* the same for the modules alone
C20_ModuleNoErrorEscapes == impl = "modules" => C20_NoErrorEscapes

(***************************************************************************)
(* C9: after two calls of insertDiffIntoPage in succession with the same   *)
(* display document and no change of the host page in between, the page    *)
(* holds exactly one panel, and is as the first of the two calls left it.  *)
(* hist.calls = 2 says that the last two or more calls were such calls.    *)
(***************************************************************************)
C9_TwoInsertionsOnePanel ==
  hist.calls = 2 =>
    /\ PanelCount(Page, panels) = 1
    /\ panels = hist.afterFirst

C9_Witness ==
  /\ hist.calls = 2
  /\ PanelCount(Page, panels) = 1
  /\ pc = [r \in Runs |-> "done"]

(***************************************************************************)
(* C10: in every reachable state the page holds at most one panel (one     *)
(* element of class composer-diff-container).                              *)
(***************************************************************************)
C10_AtMostOnePanel == PanelCount(Page, panels) <= 1

(***************************************************************************)
(* The raw fetches                                                         *)
(***************************************************************************)
\* exactly one of the two responses is a failure and the other a success
OnlySourceFailed == branches.sourceAns = "notOk" /\ branches.targetAns = "ok"

OnlyTargetFailed == branches.targetAns = "notOk" /\ branches.sourceAns = "ok"

\* C21: when exactly one of the two raw fetches is answered without success,
\* the other manifest is still used: every package of the source branch's
\* file is reported added when the target fetch failed, every package of the
\* target branch's file removed when the source fetch failed.
C21_FailedSideAloneDegrades ==
  \A d \in DiffsProduced :
    /\ OnlyTargetFailed => AddedAre(d, branches.source)
    /\ OnlySourceFailed => RemovedAre(d, branches.target)

(***************************************************************************)
(* The rendered block of updated packages                                  *)
(***************************************************************************)
FirstIndex(seq, from, tokens) ==
  Min({i \in from..Len(seq) : seq[i] \in tokens} \cup {Len(seq) + 1})

\* the tokens of html from the heading of the updated block to the end of its table
UpdatedBlock(html) ==
  LET h == FirstIndex(html, 1, {"<h2>Updated packages</h2>"})
      e == FirstIndex(html, h, {"</table>"})
  IN SubSeq(html, h, e)

\* the version cell and the section cell of the row of package n
RowCells(block, n) ==
  LET r == CHOOSE i \in 1..Len(block) :
             /\ block[i] \in {"<tr>", "<tr class=package-updated>"}
             /\ block[i + 1] = n
      c1 == FirstIndex(block, r, {"<td>"})
      c2 == FirstIndex(block, c1 + 1, {"<td>"})
      e  == FirstIndex(block, c2, {"</tr>"})
  IN [version |-> SubSeq(block, c1 + 1, c2 - 1), section |-> SubSeq(block, c2 + 1, e - 1)]

\* a cell that shows a change from a to b: two labelled values
ShowsBoth(cell, a, b) == Len(cell) = 4 /\ cell[2] = a /\ cell[4] = b

CellIsRight(cell, previous, new) ==
  IF previous # new THEN ShowsBoth(cell, previous, new) ELSE cell = <<new>>

Rendered ==
  (IF modOut.done THEN {modOut} ELSE {})
  \cup (IF csOut.done /\ ~csOut.threw THEN {csOut} ELSE {})

\* C22: in the rendered block of updated packages every record has a row
\* whose version cell shows the previous and the new version exactly when
\* they differ, and whose section cell shows the previous and the new section
\* exactly when they differ; an unchanged field shows the new value alone.
C22_UpdatedCellsShowChangesOnly ==
  \A o \in Rendered :
    \A i \in 1..Len(o.diff.updated) :
      LET d == o.diff.updated[i]
          cells == RowCells(UpdatedBlock(o.html), d.name)
      IN /\ CellIsRight(cells.version, d.previousVersion, d.newVersion)
         /\ CellIsRight(cells.section, d.previousSection, d.newSection)

\* the module rendered one updated record whose section alone changed and
\* another whose version alone changed
C22_Witness ==
  /\ modOut.done
  /\ \E i, j \in 1..Len(modOut.diff.updated) :
       /\ modOut.diff.updated[i].previousVersion = modOut.diff.updated[i].newVersion
       /\ modOut.diff.updated[i].previousSection # modOut.diff.updated[i].newSection
       /\ modOut.diff.updated[j].previousVersion # modOut.diff.updated[j].newVersion
       /\ modOut.diff.updated[j].previousSection = modOut.diff.updated[j].newSection

(***************************************************************************)
(* Names listed more than once in one section                              *)
(***************************************************************************)
Occurrences(list, n) == {i \in 1..Len(list) : list[i].name = n}

\* a section of the snapshot lists n more than once
ListedTwice(text, n) ==
  \/ Cardinality(Occurrences(text.packages, n)) > 1
  \/ Cardinality(Occurrences(text.dev, n)) > 1

DiffRecords(d) == d.added \o d.updated \o d.removed

\* C23: when a section of a snapshot lists a package name more than once, the
\* last-listed entry is that snapshot's entry: the module's diff reports the
\* name unless the two snapshots' (last) entries agree, with the old
\* snapshot's last version as previousVersion and the new snapshot's last
\* version as newVersion, whether or not the other snapshot has the name.
C23_LastListedEntryWins ==
  modOut.done =>
    \A n \in Names :
      (ListedTwice(oldContent, n) \/ ListedTwice(newContent, n)) =>
        LET recs == DiffRecords(modOut.diff) IN
          /\ HasKey(recs, n) <=> ~(n \in InBoth /\ SameVersion(n) /\ SameSection(n))
          /\ HasKey(recs, n) =>
               /\ n \in RegNames(oldContent) =>
                    GetKey(recs, n).previousVersion = RegVersion(oldContent, n)
               /\ n \in RegNames(newContent) =>
                    GetKey(recs, n).newVersion = RegVersion(newContent, n)

\* the old snapshot lists a name twice in "packages" with two versions, the
\* new snapshot lists another name twice, and the module reported both
C23_Witness ==
  /\ modOut.done
  /\ \E n, m \in Names :
       /\ n # m
       /\ Cardinality({oldContent.packages[i].version : i \in Occurrences(oldContent.packages, n)}) > 1
       /\ Cardinality({newContent.packages[i].version : i \in Occurrences(newContent.packages, m)}) > 1
       /\ HasKey(modOut.diff.removed, n)
       /\ HasKey(modOut.diff.added, m)

(***************************************************************************)
(* What one insertion changes in the page                                  *)
(***************************************************************************)
\* the pages P can become by the removal of at most one panel
RemovalsOf(P) ==
  {P}
  \cup UNION {{[P EXCEPT ![n].first = RemoveAt(@, i)] : i \in 1..Len(P[n].first)} :
               n \in Nodes}
  \cup UNION {{[P EXCEPT ![n].last = RemoveAt(@, i)] : i \in 1..Len(P[n].last)} :
               n \in Nodes}

\* the pages P can become by one new panel as first or last child of an element
AdditionsOf(P, html) ==
  {[P EXCEPT ![n].first = <<html>> \o @] : n \in Nodes}
  \cup {[P EXCEPT ![n].last = Append(@, html)] : n \in Nodes}

\* C24: a call of insertDiffIntoPage leaves the host page's elements as they
\* are; of the panels it removes at most one and, when it succeeds, adds
\* exactly one new panel, which is the first child of the chosen content
\* target when prepend works; a call that fails adds none.
C24_OnlyPanelsChange ==
  [][(~last.called /\ last'.called) =>
       /\ layout' = layout
       /\ \E P1 \in RemovalsOf(panels) :
            IF last'.ok
              THEN /\ panels' \in AdditionsOf(P1, last'.html)
                   /\ "prepend" \notin domFaults =>
                        panels' = [P1 EXCEPT ![last'.target].first = <<last'.html>> \o @]
              ELSE panels' = P1]_vars

\* a call found a panel of an earlier call, removed it and inserted its own
C24_Witness ==
  /\ last.called
  /\ last.ok
  /\ PanelCount(Page, last.before) = 1
  /\ PanelCount(Page, panels) = 1
  /\ panels # last.before

(***************************************************************************)
(* The popup's messages                                                    *)
(***************************************************************************)
\* C25: every action the popup sends is answered by the page: the listener
\* calls sendResponse for it, with a success indication for refreshDiff and
\* with the markdown diff for getMarkdownDiff.
C25_EveryPopupActionAnswered ==
  port.action # "none" =>
    /\ port.response.sent
    /\ port.action = "refreshDiff" => port.response.kind = "success"
    /\ port.action = "getMarkdownDiff" => port.response.kind = "markdown"

(***************************************************************************)
(* JSON that is no manifest                                                *)
(***************************************************************************)
NonManifest(text) == text \in NonManifestTexts

\* the snapshot the engine is to see in a text: nothing when it is no manifest
AsRegistry(text) == IF NonManifest(text) THEN EmptyObjectText ELSE text

PipelinesRun ==
  (IF modOut.done THEN {modOut} ELSE {}) \cup (IF csOut.done THEN {csOut} ELSE {})

\* C26: a text that is well-formed JSON but no manifest object (null, a
\* number, a string, an object whose "packages" or "packages-dev" is no list)
\* counts as an absent snapshot: the engine does not raise and returns the
\* diff of the empty registry and the other snapshot.
C26_NonManifestJsonIsAbsent ==
  \A o \in PipelinesRun :
    (NonManifest(oldContent) \/ NonManifest(newContent)) =>
      /\ ~o.threw
      /\ AddedAre(o.diff, AsRegistry(newContent))
      /\ RemovedAre(o.diff, AsRegistry(oldContent))

(***************************************************************************)
(* The document the watcher inserts                                        *)
(***************************************************************************)
\* the documents of the panels in the page
PanelHtmls(P) == UNION {{PanelsAt(P, n)[i] : i \in 1..Len(PanelsAt(P, n))} : n \in Nodes}

\* what the most recent generateDiff made of the texts it fetched: the
\* document it handed to insertDiffIntoPage, unless it threw before the call
LatestDocument ==
  IF impl = "content"
    THEN generateComposerDiff(oldContent, newContent)
    ELSE generateHtml(oldContent, newContent)

\* C27: when the timer of the scroll listener finds the panel absent and
\* inserts one, the panel holds the display document of the most recent
\* call of insertDiffIntoPage, not the document of the call that registered
\* the listener.
C27_WatcherInsertsLatestDocument ==
  [][(/\ timers' = timers - 1
      /\ PanelCount(Page, panels) = 0
      /\ PanelCount(Page, panels') > 0
      /\ ~LatestDocument.threw)
       => PanelHtmls(panels') = {LatestDocument.html}]_vars

(***************************************************************************)
(* The order of the two fetches                                            *)
(***************************************************************************)
\* C28: both raw fetches are issued before the call awaits, the diff is
\* computed only after both fetches have completed, and whichever completed
\* first the old snapshot is the target branch's file and the new snapshot
\* the source branch's file.
C28_DiffAfterBothFetches ==
  /\ fetchCall \in {"awaiting", "returned"} => \A s \in Sides : fetches[s] # "idle"
  /\ \A o \in PipelinesRun :
       /\ \A s \in Sides : fetches[s] = "settled"
       /\ (branches.sourceAns = "ok" /\ branches.targetAns = "ok") =>
            /\ oldContent = branches.target
            /\ newContent = branches.source

(***************************************************************************)
(* What initialize checks before anything is fetched or inserted           *)
(***************************************************************************)
\* the instance is GitLab, the URL is that of a merge request's diffs tab
\* and the change list names composer.lock
ChecksHold == env.manifest = "gitlab" /\ env.onDiffPage /\ env.changes = "withLock"

\* C29: generateDiff fetches the raw manifests, a panel is inserted and the
\* scroll listener is registered only in a page where initialize found the
\* instance to be GitLab, the URL to be a merge request diffs page and the
\* change list to name composer.lock.
C29_NothingBeforeChecks ==
  (\/ \E r \in Runs : pc[r] = "fetching"
   \/ hist.calls > 0
   \/ PanelCount(Page, panels) > 0
   \/ listenerAdded
   \/ listeners > 0) => ChecksHold

\* both initializations passed the checks, a panel is in the page and the
\* listener is registered
C29_Witness ==
  /\ ChecksHold
  /\ \A r \in Runs : pc[r] = "done"
  /\ PanelCount(Page, panels) > 0
  /\ listeners > 0

(***************************************************************************)
(* Two initializations in one page                                         *)
(***************************************************************************)
\* insertDiffIntoPage(h) in the page as the host rendered it
FirstInsert(h) ==
  IF impl = "content"
    THEN csInsertDiffIntoPage(Page, NoPanels, h, NoRaise)
    ELSE [threw |-> FALSE] @@ insertDiffIntoPage(Page, NoPanels, h, NoRaise)

\* the anchor the locator returns in the page with panels P
AnchorIn(P) ==
  IF impl = "content" THEN csComposerLockElement(Page, P)
  ELSE findComposerLockElement(Page, P)

\* the page is as the generateDiff of one initialization left it
FirstRunLeft ==
  /\ listeners = 1
  /\ \E h \in PanelHtmls(panels) :
       /\ FirstInsert(h).ok
       /\ panels = FirstInsert(h).panels

\* C30: initialize is scheduled twice (DOMContentLoaded and load).  When the
\* generateDiff of the second initialization completes in a page that the
\* first one left with its panel and its listener, and the locator returns
\* the anchor it returned to the first, the page holds exactly one panel and
\* exactly one scroll listener, whichever initialization came first.
C30_TwoInitializationsOnePanel ==
  [][\A r \in Runs :
       (/\ pc[r] = "fetching"
        /\ pc'[r] = "done"
        /\ \A q \in Runs \ {r} : pc[q] = "done"
        /\ FirstRunLeft
        /\ AnchorIn(panels) = AnchorIn(NoPanels))
         => /\ PanelCount(Page, panels') = 1
            /\ listeners' = 1]_vars

\* both initializations have inserted, the second a document other than the
\* first one's, and one panel and one listener are in the page
C30_Witness ==
  /\ pc = [r \in Runs |-> "done"]
  /\ hist.calls = 1
  /\ listenerHtml # hist.html
  /\ PanelHtmls(panels) = {hist.html}
  /\ PanelCount(Page, panels) = 1
  /\ listeners = 1
  /\ gone = 0

====
